---- MODULE Spec2Model ----
(***************************************************************************)
(* Model of baidu_login/login_handler.py: BaiduLoginHandler.login() and    *)
(* the helpers it calls (retry engine, anti-replay fetch, response         *)
(* classifier, captcha callback normalisation).                            *)
(*                                                                         *)
(* Python values are tagged records ("nodes"): null, str, int, map, list.  *)
(* A map keeps its entries in insertion order, as a Python dict does.      *)
(* Chinese literals of the source are written in ASCII; the keyword the    *)
(* classifier searches for is ZhCaptcha.                                   *)
(***************************************************************************)
EXTENDS Integers, Sequences, FiniteSets, TLC

\* ------------------------------------------------------------------ bounds
MaxAttemptsBound == 2      \* RetryPolicy.max_attempts ranges over 1..MaxAttemptsBound
MaxCaptchaAttempts == 2    \* max_captcha_attempts ranges over -1..MaxCaptchaAttempts
MaxCalls == 1              \* login() invocations made on one handler
MaxEngineAttempts == 3     \* max_attempts of the engine studied alone: 1..MaxEngineAttempts
MaxBackoff == 2            \* RetryPolicy.backoff_seconds ranges over 0..MaxBackoff
MaxThreads == 2               \* threads that call DedupManager.add()
MaxAdds == 3                  \* add() calls made on one DedupManager
MaxTasks == 3                 \* login() calls that run concurrently on one handler
MaxOps == 4                   \* start(), close() and login() calls made on one handler
MaxCallers == 3               \* threads that call the JSRPCClientSingleton
MaxCap == 3                \* RetryPolicy.max_backoff_seconds ranges over 1..MaxCap

\* ------------------------------------------------------------ Python values
Null == [t |-> "null", s |-> "", e |-> <<>>]
StrV(x) == [t |-> "str", s |-> x, e |-> <<>>]
IntV(x) == [t |-> "int", s |-> x, e |-> <<>>]
List(items) == [t |-> "list", s |-> "", e |-> items]
Map(entries) == [t |-> "map", s |-> "", e |-> entries]
KV(key, val) == [k |-> key, v |-> val]
\* json.loads / response.json() raising ValueError
NotJson == [t |-> "invalid", s |-> "", e |-> <<>>]

IsDict(n) == n.t = "map"
IsStr(n) == n.t = "str"

\* bool(value)
Truthy(n) ==
    CASE n.t = "null" -> FALSE
      [] n.t = "str" -> n.s # ""
      [] n.t = "int" -> n.s # "0"
      [] OTHER -> Len(n.e) > 0

\* a or b
PyOr(a, b) == IF Truthy(a) THEN a ELSE b

\* str(value); the repr of a container is kept abstract but non-empty
PyStr(n) ==
    CASE n.t = "null" -> "None"
      [] n.t = "str" -> n.s
      [] n.t = "int" -> n.s
      [] n.t = "map" -> IF Len(n.e) = 0 THEN "{}" ELSE "{..}"
      [] OTHER -> IF Len(n.e) = 0 THEN "[]" ELSE "[..]"

\* ------------------------------------------------------------ str methods
RECURSIVE LStrip(_)
LStrip(x) ==
    IF Len(x) = 0 THEN x
    ELSE IF SubSeq(x, 1, 1) = " " THEN LStrip(SubSeq(x, 2, Len(x))) ELSE x

RECURSIVE RStrip(_)
RStrip(x) ==
    IF Len(x) = 0 THEN x
    ELSE IF SubSeq(x, Len(x), Len(x)) = " " THEN RStrip(SubSeq(x, 1, Len(x) - 1)) ELSE x

\* str.strip()
Strip(x) == RStrip(LStrip(x))

UpperAlpha == "ABCDEFGHIJKLMNOPQRSTUVWXYZ"
LowerAlpha == "abcdefghijklmnopqrstuvwxyz"

UpperChars == {SubSeq(UpperAlpha, i, i) : i \in 1..26}

LowerOf == [c \in UpperChars |->
               LET i == CHOOSE j \in 1..26 : SubSeq(UpperAlpha, j, j) = c
               IN SubSeq(LowerAlpha, i, i)]

LowerChar(c) == IF c \in UpperChars THEN LowerOf[c] ELSE c

RECURSIVE Lower(_)
\* str.lower()
Lower(x) ==
    IF Len(x) = 0 THEN x
    ELSE LowerChar(SubSeq(x, 1, 1)) \o Lower(SubSeq(x, 2, Len(x)))

\* sub in x
Contains(x, sub) ==
    \E i \in 1..(Len(x) - Len(sub) + 1) : SubSeq(x, i, i + Len(sub) - 1) = sub

\* the three-character Chinese word for "captcha" searched by _is_captcha_required
ZhCaptcha == "#*#"

\* --------------------------------------------------------- dict operations
HasKey(node, key) == \E i \in 1..Len(node.e) : node.e[i].k = key

\* node[key]
MapItem(node, key) == node.e[CHOOSE i \in 1..Len(node.e) : node.e[i].k = key].v

\* node.get(key)
MapGet(node, key) == IF HasKey(node, key) THEN MapItem(node, key) ELSE Null

\* list(node.values())
MapValues(node) == [i \in 1..Len(node.e) |-> node.e[i].v]

Reverse(q) == [i \in 1..Len(q) |-> q[Len(q) + 1 - i]]

\* value not in (None, "")
NonEmpty(n) == ~(n.t = "null" \/ (n.t = "str" /\ n.s = ""))

\* node[key] = val
DictSet(node, key, val) ==
    IF HasKey(node, key)
    THEN Map([i \in 1..Len(node.e) |-> IF node.e[i].k = key THEN KV(key, val) ELSE node.e[i]])
    ELSE Map(Append(node.e, KV(key, val)))

\* mutant of SetDefault: the key is assigned whether or not it is present
SetDefault_overwrites(node, key, val) == DictSet(node, key, val)

\* node.setdefault(key, val)
SetDefault(node, key, val) == IF HasKey(node, key) THEN node ELSE DictSet(node, key, val)

RECURSIVE UpdateItems(_, _)
UpdateItems(node, items) ==
    IF Len(items) = 0 THEN node
    ELSE UpdateItems(DictSet(node, Head(items).k, Head(items).v), Tail(items))

\* node.update(other)
Update(node, other) == UpdateItems(node, other.e)

\* node.keys()
Keys(node) == {node.e[i].k : i \in 1..Len(node.e)}

\* ------------------------------------------------------------------- state
VARIABLES
    hashRev,        \* iteration order of Python sets in this process (hash seed)
    retry_policy,   \* self._retry_policy: [max_attempts]
    started,        \* self._started
    http_client,    \* self._http_client: "none" or "open"
    jsrpc_started,  \* self._jsrpc_client._started
    calls,          \* login() invocations begun so far
    pc,             \* position of the running login() coroutine
    args,           \* arguments of the running login()
    req_attempt,    \* _request_with_retry: attempt
    last_error,     \* _request_with_retry: last_error
    response,       \* login(): response, the last one a login POST returned
    payload,        \* login(): payload
    challenge,      \* login(): challenge
    cap_attempt,    \* login(): attempt of the captcha loop
    solver_raw,     \* _invoke_captcha_callback(): raw, or NoRaw before the callback returns
    result,         \* LoginResult returned by login(), or NoResult
    stats,          \* per-invocation counts of outbound events
    events,         \* per-invocation log of outbound events
    encrypted_params, \* login(): encrypted_params, the credential bundle
    ar_response,    \* the anti-replay endpoint's answer to the running attempt, in flight
    anti_replay,    \* login(): anti_replay
    form_data,      \* login(): form_data, the initial form
    sent_form,      \* the form given to the last _send_login_request
    attempt_log,    \* _request_with_retry: how each attempt so far ended
    sleeps,         \* _request_with_retry: the delays slept so far
    first_form,     \* the form as it was given to the first _send_login_request
    form_ids,       \* which dict objects login() holds and sends, and how many were made
    prev_sent,      \* the form given to the _send_login_request before the last one
    analysis,       \* _analyze_login_response: the _ResponseAnalysis it returned
    candidate_keys, \* _find_first_value: keys
    found,          \* _find_first_value: what it returned
    task_pc,        \* concurrent login() calls: where each call is
    task_client,    \* concurrent login() calls: the client object each call's request uses
    clients,        \* every httpx.AsyncClient made so far: "open" or "closed"
    client_ref,     \* self._http_client: the number of the client it refers to, 0 for None
    sessions,       \* browser sessions the encryptor has launched
    hashes,         \* DedupManager: self._hashes
    hash_file,      \* DedupManager: the lines of the hash file
    add_log,        \* DedupManager: the payloads of the add() calls that returned, in order
    pending,        \* DedupManager: per thread, the add() call it is in
    reopened,       \* a DedupManager opened later on the same file: what it loaded, and when
    clock,          \* time.time() in milliseconds, as _now_ms() reads it
    request,        \* _request_with_retry: its arguments method, url, params, data, headers
    sent_log,       \* what each attempt so far gave to self._http_client.request
    owns_jsrpc,     \* self._owns_jsrpc: the handler made its encryptor client itself
    caller_pc,      \* JSRPCClientSingleton: where each caller thread is
    caller_instance, \* the singleton get_instance() returned to each caller thread, 0 for none yet
    instances_made, \* JSRPCClientSingleton objects constructed so far (numbered as made)
    instance,       \* cls._instance: the number of the object, 0 for None
    instance_lock,  \* cls._instance_lock: the thread that holds it, 0 for none
    request_lock,   \* self._request_lock: the thread that holds it, 0 for none
    loop_ready,     \* the event loop's queue of callbacks that are ready to run
    coroutines,     \* the coroutine each caller thread handed to the loop
    startup_lock,   \* self._startup_lock: the thread that holds it, 0 for none
    client_started  \* JSRPCClientSingleton._started

\* kept by the specification of the Retry/Backoff Engine alone
engine_log == <<attempt_log, sleeps>>

\* login(): the locals the forms are made of
form_state == <<encrypted_params, anti_replay, form_data, sent_form>>

\* kept by the specification of the Login Form Builder alone
form_track == <<first_form, form_ids, prev_sent>>

\* kept by the specifications of the Response Classifier and of the Nested
\* Field Extractor alone
pure_state == <<analysis, candidate_keys, found>>

\* kept by the specification of concurrent login() calls alone
conc_state == <<task_pc, task_client, clients, client_ref, sessions>>

\* kept by the specification of the DedupManager alone
dedup_state == <<hashes, hash_file, add_log, pending, reopened>>

\* kept by the specification of the requests on the wire alone
wire_state == <<clock, request, sent_log>>

\* kept by the specification of the handler's lifecycle alone
life_state == <<owns_jsrpc>>

\* kept by the specification of the JSRPCClientSingleton alone
singleton_state == <<caller_pc, caller_instance, instances_made, instance, instance_lock,
                     request_lock, loop_ready, coroutines, startup_lock, client_started>>

vars == <<hashRev, retry_policy, started, http_client, jsrpc_started, calls, pc, args,
          req_attempt, last_error, response, payload, challenge, cap_attempt, solver_raw,
          result, stats, events, encrypted_params, ar_response, anti_replay, form_data,
          sent_form, attempt_log, sleeps, first_form, form_ids, prev_sent,
          analysis, candidate_keys, found, task_pc, task_client, clients, client_ref,
          sessions, hashes, hash_file, add_log, pending, reopened,
          clock, request, sent_log, owns_jsrpc, caller_pc, caller_instance,
          instances_made, instance, instance_lock, request_lock, loop_ready, coroutines,
          startup_lock, client_started>>

\* ------------------------------------------------- Nested Field Extractor
\* "for key in keys" walks a set: the order depends on the hash seed
KeyOrder(keys) == IF hashRev THEN Reverse(keys) ELSE keys

\* mutant of KeyHit: a key that is present counts, whatever its value
KeyHit_any_value(node, key) == HasKey(node, key)

KeyHit(node, key) == HasKey(node, key) /\ NonEmpty(MapItem(node, key))

\* mutant of bfs: the children of a node are visited before its siblings
RECURSIVE bfs_depth_first(_, _)
bfs_depth_first(queue, keys) ==
    IF Len(queue) = 0 THEN Null
    ELSE LET node == Head(queue)
             rest == Tail(queue)
         IN IF node.t = "map"
            THEN LET hits == SelectSeq(keys, LAMBDA key : KeyHit(node, key))
                 IN IF Len(hits) > 0 THEN MapItem(node, hits[1])
                    ELSE bfs_depth_first(MapValues(node) \o rest, keys)
            ELSE IF node.t = "list" THEN bfs_depth_first(node.e \o rest, keys)
            ELSE bfs_depth_first(rest, keys)

RECURSIVE bfs(_, _)
bfs(queue, keys) ==
    IF Len(queue) = 0 THEN Null
    ELSE LET node == Head(queue)
             rest == Tail(queue)
         IN IF node.t = "map"
            THEN LET hits == SelectSeq(keys, LAMBDA key : KeyHit(node, key))
                 IN IF Len(hits) > 0 THEN MapItem(node, hits[1])
                    ELSE bfs(rest \o MapValues(node), keys)
            ELSE IF node.t = "list" THEN bfs(rest \o node.e, keys)
            ELSE bfs(rest, keys)

find_first_value(node, keys) == bfs(<<node>>, KeyOrder(keys))

safe_str(value) ==
    IF value.t = "null" THEN Null
    ELSE LET text == Strip(PyStr(value))
         IN IF text = "" THEN Null ELSE StrV(text)

\* ---------------------------------------------------------------- constants
RETRYABLE_HTTP_STATUS == {429, 500, 502, 503, 504}
CAPTCHA_HINT_CODES == {"6", "120021", "500002", "500018", "401023"}

\* -------------------------------------------------------- payload helpers
extract_message(p) ==
    IF ~IsDict(p) THEN (IF IsStr(p) /\ p.s # "" THEN StrV(p.s) ELSE Null)
    ELSE LET msg == find_first_value(p,
                      <<"msg", "errmsg", "errMsg", "message", "tips", "error_msg", "errorMsg">>)
             text == Strip(PyStr(msg))
             err_info == MapGet(p, "errInfo")
             info_msg == IF IsDict(err_info)
                         THEN PyOr(MapGet(err_info, "msg"), MapGet(err_info, "message"))
                         ELSE Null
         IN IF msg.t # "null" /\ text # "" THEN StrV(text)
            ELSE IF IsDict(err_info) /\ Truthy(info_msg) THEN StrV(PyStr(info_msg))
            ELSE Null

extract_error_code(p) ==
    IF ~IsDict(p) THEN Null
    ELSE LET code == find_first_value(p,
                       <<"errno", "errNo", "err_no", "code", "error", "error_code">>)
             err_info == MapGet(p, "errInfo")
         IN IF code.t # "null" THEN StrV(PyStr(code))
            ELSE IF IsDict(err_info) /\ MapGet(err_info, "no").t # "null"
                 THEN StrV(PyStr(MapGet(err_info, "no")))
            ELSE Null

is_success_payload(p) ==
    IF ~IsDict(p) THEN FALSE
    ELSE LET errno == safe_str(find_first_value(p,
                        <<"errno", "errNo", "err_no", "code", "no">>))
             err_info == MapGet(p, "errInfo")
         IN \/ errno \in {StrV("0"), StrV("success"), StrV("ok")}
            \/ /\ IsDict(err_info)
               /\ safe_str(MapGet(err_info, "no")) \in {StrV("0"), StrV("success"), StrV("ok")}

is_captcha_required(p) ==
    \/ /\ IsDict(p)
       /\ \/ Truthy(find_first_value(p,
                <<"vcodestr", "verifycode", "codeString", "codestring", "captcha", "captchaUrl">>))
          \/ LET error_code == extract_error_code(p)
             IN error_code.t = "str" /\ error_code.s \in CAPTCHA_HINT_CODES
          \/ LET message == Lower(PyStr(PyOr(extract_message(p), StrV(""))))
             IN Contains(message, ZhCaptcha) \/ Contains(message, "captcha")
    \/ /\ IsStr(p)
       /\ (Contains(p.s, ZhCaptcha) \/ Contains(Lower(p.s), "captcha"))

\* CaptchaChallenge(...)
CaptchaChallenge(vcodestr, code_string, captcha_url, prompt, error_code, raw) ==
    [vcodestr |-> vcodestr, code_string |-> code_string, captcha_url |-> captcha_url,
     prompt |-> prompt, error_code |-> error_code, raw |-> raw]

\* the default prompt of the source contains the Chinese word for "captcha"
NeedCaptchaMsg == "need #*#"

\* CaptchaChallenge(prompt="...", raw={})
DefaultChallenge == CaptchaChallenge(Null, Null, Null, StrV(NeedCaptchaMsg), Null, Map(<<>>))

\* the value None where a CaptchaChallenge is expected
NoChallenge == [none |-> TRUE]

extract_captcha_challenge(p) ==
    IF ~IsDict(p) THEN DefaultChallenge
    ELSE CaptchaChallenge(
            safe_str(find_first_value(p, <<"vcodestr">>)),
            safe_str(find_first_value(p, <<"codeString", "codestring", "code_string">>)),
            safe_str(find_first_value(p, <<"captchaUrl", "captcha_url", "img", "imgUrl">>)),
            PyOr(extract_message(p), StrV(NeedCaptchaMsg)),
            extract_error_code(p),
            p)

\* ----------------------------------------------------------- HTTP responses
\* status, BDUSS of the cookie jar (Null: none), one entry per Set-Cookie header
\* (Null: the header has no BDUSS), content type, text and what a JSON parse
\* of the text gives (NotJson: ValueError)
Response(status, cookie, set_cookie, ctype_json, text, json) ==
    [status |-> status, cookie |-> cookie, set_cookie |-> set_cookie,
     ctype_json |-> ctype_json, text |-> text, json |-> json]

JsonResponse(status, cookie, set_cookie, json) ==
    Response(status, cookie, set_cookie, TRUE, "json", json)

TextResponse(status, text) == Response(status, Null, <<>>, FALSE, text, NotJson)

decode_response_body(r) ==
    IF r.ctype_json
    THEN (IF r.json # NotJson THEN r.json ELSE StrV(r.text))
    ELSE IF r.text = "" THEN Map(<<>>)
    ELSE IF r.json # NotJson THEN r.json
    ELSE StrV(r.text)

\* mutant of extract_bduss: the body is looked at before the cookies
extract_bduss_body_first(r, p) ==
    LET with_bduss == SelectSeq(r.set_cookie, LAMBDA h : h.t # "null")
        value == IF IsDict(p) THEN find_first_value(p, <<"BDUSS", "bduss", "bdus">>) ELSE Null
        value_str == Strip(PyStr(value))
    IN IF value.t # "null" /\ value_str # "" THEN StrV(value_str)
       ELSE IF Truthy(r.cookie) THEN r.cookie
       ELSE IF Len(with_bduss) > 0 THEN with_bduss[1]
       ELSE Null

extract_bduss(r, p) ==
    LET with_bduss == SelectSeq(r.set_cookie, LAMBDA h : h.t # "null")
        value == IF IsDict(p) THEN find_first_value(p, <<"BDUSS", "bduss", "bdus">>) ELSE Null
        value_str == Strip(PyStr(value))
    IN IF Truthy(r.cookie) THEN r.cookie
       ELSE IF Len(with_bduss) > 0 THEN with_bduss[1]
       ELSE IF value.t # "null" /\ value_str # "" THEN StrV(value_str)
       ELSE Null

\* ------------------------------------------------------ Response Classifier
ResponseAnalysis(status, message, error_code, bduss, captcha_challenge) ==
    [status |-> status, message |-> message, error_code |-> error_code,
     bduss |-> bduss, captcha_challenge |-> captcha_challenge]

LoginOkMsg == "login ok"

\* mutant of analyze_login_response: a success without token has no default message
analyze_login_response_bare_success(r, p) ==
    LET bduss == extract_bduss(r, p)
    IN IF is_captcha_required(p)
       THEN ResponseAnalysis("captcha_required",
                PyOr(extract_message(p), StrV(NeedCaptchaMsg)),
                extract_error_code(p), bduss, extract_captcha_challenge(p))
       ELSE IF Truthy(bduss)
       THEN ResponseAnalysis("success", StrV(LoginOkMsg), Null, bduss, NoChallenge)
       ELSE IF is_success_payload(p)
       THEN ResponseAnalysis("success", extract_message(p), Null, Null, NoChallenge)
       ELSE ResponseAnalysis("failed",
                PyOr(extract_message(p), StrV("login failed, HTTP " \o ToString(r.status))),
                extract_error_code(p), Null, NoChallenge)

\* mutant of analyze_login_response: the success marker is tested before the
\* challenge signals
analyze_login_response_success_first(r, p) ==
    LET bduss == extract_bduss(r, p)
    IN IF Truthy(bduss)
       THEN ResponseAnalysis("success", StrV(LoginOkMsg), Null, bduss, NoChallenge)
       ELSE IF is_success_payload(p)
       THEN ResponseAnalysis("success", PyOr(extract_message(p), StrV(LoginOkMsg)),
                Null, Null, NoChallenge)
       ELSE IF is_captcha_required(p)
       THEN ResponseAnalysis("captcha_required",
                PyOr(extract_message(p), StrV(NeedCaptchaMsg)),
                extract_error_code(p), bduss, extract_captcha_challenge(p))
       ELSE ResponseAnalysis("failed",
                PyOr(extract_message(p), StrV("login failed, HTTP " \o ToString(r.status))),
                extract_error_code(p), Null, NoChallenge)

analyze_login_response(r, p) ==
    LET bduss == extract_bduss(r, p)
    IN IF is_captcha_required(p)
       THEN ResponseAnalysis("captcha_required",
                PyOr(extract_message(p), StrV(NeedCaptchaMsg)),
                extract_error_code(p), bduss, extract_captcha_challenge(p))
       ELSE IF Truthy(bduss)
       THEN ResponseAnalysis("success", StrV(LoginOkMsg), Null, bduss, NoChallenge)
       ELSE IF is_success_payload(p)
       THEN ResponseAnalysis("success", PyOr(extract_message(p), StrV(LoginOkMsg)),
                Null, Null, NoChallenge)
       ELSE ResponseAnalysis("failed",
                PyOr(extract_message(p), StrV("login failed, HTTP " \o ToString(r.status))),
                extract_error_code(p), Null, NoChallenge)

\* the value None where a _ResponseAnalysis is expected
NoAnalysis == [none |-> TRUE]

\* _find_first_value has not returned yet
NotRun == [none |-> TRUE]

\* DedupManager: no add() call is running in the thread
NoCall == [none |-> TRUE]

\* DedupManager: no second manager was opened
NotOpened == [none |-> TRUE]

\* no _request_with_retry is running
NoRequest == [none |-> TRUE]

\* responses the login endpoint may give
LoginResponses == <<
    JsonResponse(200, Null, <<>>,
        Map(<<KV("errno", IntV("0")), KV("BDUSS", StrV("abc123"))>>)),
    JsonResponse(200, Null, <<>>,
        Map(<<KV("errno", StrV("120021")), KV("vcodestr", StrV("xyz")),
              KV("img", StrV("/cgi/genimage?xyz"))>>)),
    JsonResponse(200, Null, <<>>,
        Map(<<KV("errno", IntV("0")), KV("BDUSS", StrV("abc123")),
              KV("vcodestr", StrV("xyz"))>>)),
    JsonResponse(200, StrV("ck1"), <<StrV("ck1")>>,
        Map(<<KV("errno", StrV("120021"))>>)),
    JsonResponse(200, Null, <<Null, StrV("sc1")>>,
        Map(<<KV("errno", IntV("0")), KV("msg", StrV("Captcha passed"))>>)),
    JsonResponse(200, Null, <<>>,
        Map(<<KV("errno", StrV("4")), KV("msg", StrV("bad password"))>>)),
    TextResponse(200, "please enter CAPTCHA"),
    JsonResponse(200, Null, <<>>,
        Map(<<KV("data", List(<<Map(<<KV("x", Null)>>)>>)),
              KV("errInfo", Map(<<KV("no", StrV("0"))>>))>>)),
    TextResponse(503, ""),
    JsonResponse(200, Null, <<>>, Map(<<KV("msg", StrV("need #*#"))>>)),
    Response(200, Null, <<>>, FALSE, "json",
        Map(<<KV("errno", StrV("120021")),
              KV("data", Map(<<KV("codeString", StrV("cs2"))>>))>>))
    >>

\* responses the anti-replay endpoint may give
AntiReplayResponses == <<
    JsonResponse(200, Null, <<>>,
        Map(<<KV("errno", IntV("0")),
              KV("data", Map(<<KV("token", StrV("tok1")), KV("servertime", IntV("1700"))>>))>>)),
    JsonResponse(200, Null, <<>>, Map(<<>>)),
    TextResponse(503, ""),
    TextResponse(404, "not found"),
    JsonResponse(200, Null, <<>>,
        Map(<<KV("errno", StrV("110")), KV("msg", StrV("denied"))>>)),
    JsonResponse(200, Null, <<>>, List(<<IntV("1")>>)),
    TextResponse(304, ""),
    TextResponse(200, "")
    >>

\* ------------------------------------------------ captcha callback results
\* CaptchaSolution(verifycode, vcodestr, extras)
CaptchaSolution(verifycode, vcodestr, extras) ==
    [t |-> "solution", s |-> "", e |-> <<>>,
     verifycode |-> verifycode, vcodestr |-> vcodestr, extras |-> extras]

\* outcome of _invoke_captcha_callback: a solution, None, or the raised error
Normalised(kind, sol) == [kind |-> kind, sol |-> sol]

\* mutants of normalise_callback_result: a blank string is taken for an answer
\* (the strip is lost); an unsupported shape is taken for "no answer"
normalise_callback_result_no_strip(raw, ch) ==
    CASE raw.t = "null" -> Normalised("none", Null)
      [] raw.t = "solution" ->
            IF raw.verifycode = "" THEN Normalised("none", Null) ELSE Normalised("ok", raw)
      [] raw.t = "str" ->
            IF raw.s = "" THEN Normalised("none", Null)
            ELSE Normalised("ok", CaptchaSolution(raw.s, PyOr(ch.vcodestr, ch.code_string), <<>>))
      [] raw.t = "map" ->
            IF ~Truthy(PyOr(MapGet(raw, "verifycode"), MapGet(raw, "code")))
            THEN Normalised("none", Null)
            ELSE Normalised("ok",
                    CaptchaSolution(PyStr(PyOr(MapGet(raw, "verifycode"), MapGet(raw, "code"))),
                                    Null, <<>>))
      [] OTHER -> Normalised("raise", Null)

normalise_callback_result_lenient(raw, ch) ==
    CASE raw.t = "null" -> Normalised("none", Null)
      [] raw.t = "solution" ->
            IF raw.verifycode = "" THEN Normalised("none", Null) ELSE Normalised("ok", raw)
      [] raw.t = "str" ->
            IF Strip(raw.s) = "" THEN Normalised("none", Null)
            ELSE Normalised("ok",
                    CaptchaSolution(Strip(raw.s), PyOr(ch.vcodestr, ch.code_string), <<>>))
      [] raw.t = "map" ->
            IF Strip(PyStr(PyOr(PyOr(MapGet(raw, "verifycode"), MapGet(raw, "code")),
                                StrV("")))) = ""
            THEN Normalised("none", Null)
            ELSE Normalised("ok",
                    CaptchaSolution(PyStr(PyOr(MapGet(raw, "verifycode"), MapGet(raw, "code"))),
                                    Null, <<>>))
      [] OTHER -> Normalised("none", Null)

normalise_callback_result(raw, ch) ==
    CASE raw.t = "null" -> Normalised("none", Null)
      [] raw.t = "solution" ->
            IF raw.verifycode = "" THEN Normalised("none", Null)
            ELSE Normalised("ok", raw)
      [] raw.t = "str" ->
            IF Strip(raw.s) = "" THEN Normalised("none", Null)
            ELSE Normalised("ok",
                    CaptchaSolution(Strip(raw.s), PyOr(ch.vcodestr, ch.code_string), <<>>))
      [] raw.t = "map" ->
            LET verifycode == Strip(PyStr(PyOr(PyOr(MapGet(raw, "verifycode"),
                                                    MapGet(raw, "code")), StrV(""))))
                vcodestr == PyOr(PyOr(MapGet(raw, "vcodestr"), MapGet(raw, "code_string")),
                                 ch.vcodestr)
                kept == SelectSeq(raw.e, LAMBDA kv :
                            /\ kv.k \notin {"verifycode", "code", "vcodestr", "code_string"}
                            /\ kv.v.t # "null")
                extras == [i \in 1..Len(kept) |-> KV(kept[i].k, PyStr(kept[i].v))]
            IN IF verifycode = "" THEN Normalised("none", Null)
               ELSE Normalised("ok",
                       CaptchaSolution(verifycode,
                           IF Truthy(vcodestr) THEN StrV(PyStr(vcodestr)) ELSE Null,
                           extras))
      [] OTHER -> Normalised("raise", Null)

\* values a captcha callback may return
CallbackValues == <<
    Null,
    StrV("4242"),
    StrV(""),
    StrV("  "),
    StrV(" 4242 "),
    CaptchaSolution("", Null, <<>>),
    CaptchaSolution("77", StrV("own"), <<KV("traceid", "t1")>>),
    Map(<<KV("verifycode", StrV("4242")), KV("foo", StrV("bar"))>>),
    Map(<<KV("code", StrV(""))>>),
    Map(<<KV("vcodestr", StrV("zz"))>>),
    IntV("42"),
    List(<<StrV("4242")>>)
    >>

\* --------------------------------------------------------------- LoginResult
LoginResult(status, message, success, bduss, error_code, resp, captcha_challenge) ==
    [status |-> status, message |-> message, success |-> success, bduss |-> bduss,
     error_code |-> error_code, response |-> resp,
     captcha_challenge |-> captcha_challenge]

\* no LoginResult: login() has not returned, or it raised
NoResult == [none |-> TRUE]

ErrorResult(message, error_code) ==
    LoginResult("error", StrV(message), FALSE, Null, StrV(error_code), Null, NoChallenge)

\* mutant of SuccessResult: the token is not passed on
SuccessResultNoToken(a, p) ==
    LoginResult("success", a.message, TRUE, Null, Null, p, NoChallenge)

SuccessResult(a, p) ==
    LoginResult("success", a.message, TRUE, a.bduss, Null, p, NoChallenge)

FailedResult(a, p) ==
    LoginResult("failed", a.message, FALSE, Null, a.error_code, p, NoChallenge)

\* mutant of CaptchaRequiredResult: captcha_challenge is left at its default
CaptchaRequiredResultNoChallenge(message, error_code, p, ch) ==
    LoginResult("captcha_required", message, FALSE, Null, error_code, p, NoChallenge)

\* mutant of CaptchaRequiredResult: a token of the body is passed on
CaptchaRequiredResultWithToken(message, error_code, p, ch) ==
    LoginResult("captcha_required", message, FALSE,
                IF IsDict(p) THEN safe_str(find_first_value(p, <<"BDUSS", "bduss", "bdus">>))
                ELSE Null,
                error_code, p, ch)

CaptchaRequiredResult(message, error_code, p, ch) ==
    LoginResult("captcha_required", message, FALSE, Null, error_code, p, ch)

\* mutant of validate_login_args: the check of max_captcha_attempts is missing
validate_login_args_no_cap(username, password, max_captcha_attempts) ==
    IF Strip(username) = "" THEN ErrorResult("username is empty", "invalid_username")
    ELSE IF password = "" THEN ErrorResult("password is empty", "invalid_password")
    ELSE NoResult

\* the argument checks that open login(): the error result, or NoResult when valid
validate_login_args(username, password, max_captcha_attempts) ==
    IF Strip(username) = "" THEN ErrorResult("username is empty", "invalid_username")
    ELSE IF password = "" THEN ErrorResult("password is empty", "invalid_password")
    ELSE IF max_captcha_attempts <= 0
         THEN ErrorResult("max_captcha_attempts must be positive", "invalid_captcha_attempts")
    ELSE NoResult

\* ------------------------------------------------------ Retry/Backoff Engine
\* mutants of retry_decision: the test of the attempt number is missing; any
\* status from 400 up is retried; a retryable status on the final attempt raises
retry_decision_unbounded(attempt, max_attempts, transport_error, status) ==
    IF transport_error \/ status \in RETRYABLE_HTTP_STATUS THEN "retry" ELSE "return"

retry_decision_retries_4xx(attempt, max_attempts, transport_error, status) ==
    IF transport_error
    THEN (IF attempt >= max_attempts THEN "raise" ELSE "retry")
    ELSE IF status >= 400 /\ attempt < max_attempts THEN "retry"
    ELSE "return"

retry_decision_final_raises(attempt, max_attempts, transport_error, status) ==
    IF transport_error \/ status \in RETRYABLE_HTTP_STATUS
    THEN (IF attempt >= max_attempts THEN "raise" ELSE "retry")
    ELSE "return"

\* what _request_with_retry does with the outcome of one attempt: outcome is
\* "transport_error" or the status code of the response
retry_decision(attempt, max_attempts, transport_error, status) ==
    IF transport_error
    THEN (IF attempt >= max_attempts THEN "raise" ELSE "retry")
    ELSE IF status \in RETRYABLE_HTTP_STATUS /\ attempt < max_attempts THEN "retry"
    ELSE "return"

\* min(a, b)
Min(a, b) == IF a <= b THEN a ELSE b

\* mutant of retry_delay: the cap is not applied
retry_delay_uncapped(policy, attempt) == policy.backoff_seconds * 2^(attempt - 1)

\* _retry_delay(attempt)
retry_delay(policy, attempt) ==
    Min(policy.backoff_seconds * 2^(attempt - 1), policy.max_backoff_seconds)

\* how one attempt ended: httpx.RequestError, or a response with this status
TransportError == [error |-> TRUE, status |-> 0]
Answered(status) == [error |-> FALSE, status |-> status]

\* status codes an endpoint may answer with
Statuses == {200, 302, 404, 429, 500, 502, 503, 504}

\* ------------------------------------------------- Anti-Replay Token Fetcher
\* mutant of antireplay_error: a body without a token is an error
antireplay_error_requires_token(r) ==
    LET p == decode_response_body(r)
    IN IF r.status >= 400 THEN "antireplaytoken failed, HTTP " \o ToString(r.status)
       ELSE IF ~IsDict(p) THEN "antireplaytoken response is not a JSON object"
       ELSE IF ~Truthy(find_first_value(p, <<"antireplaytoken", "token", "tk">>))
            THEN "antireplaytoken returned an error"
       ELSE ""

\* the error _fetch_antireplay_token raises on a returned response, "" if none
antireplay_error(r) ==
    LET p == decode_response_body(r)
        errno == safe_str(find_first_value(p, <<"errno", "errNo", "err_no", "code">>))
    IN IF r.status >= 400 THEN "antireplaytoken failed, HTTP " \o ToString(r.status)
       ELSE IF ~IsDict(p) THEN "antireplaytoken response is not a JSON object"
       ELSE IF errno \notin {Null, StrV(""), StrV("0"), StrV("success")}
            THEN "antireplaytoken returned an error"
       ELSE ""

\* AntiReplayToken(token, servertime, raw)
AntiReplayToken(token, servertime, raw) ==
    [token |-> token, servertime |-> servertime, raw |-> raw]

\* what _fetch_antireplay_token returns for a response that raised no error
antireplay_token(r) ==
    LET p == decode_response_body(r)
    IN AntiReplayToken(
           safe_str(find_first_value(p, <<"antireplaytoken", "token", "tk">>)),
           safe_str(find_first_value(p, <<"servertime", "serverTime", "server_time">>)),
           p)

\* ---------------------------------------------------------- Login Form Builder
\* EncryptedLoginParams: the credential bundle of the encryptor
EncryptedLoginParams(password, username, k, s, ds, tk, sig, sha_one, servertime, fuid, gid, session_id, baidu_id, extras) ==
    [password |-> password, username |-> username, k |-> k, s |-> s, ds |-> ds,
     tk |-> tk, sig |-> sig, sha_one |-> sha_one, servertime |-> servertime,
     fuid |-> fuid, gid |-> gid, session_id |-> session_id, baidu_id |-> baidu_id,
     extras |-> extras]

\* the form keys filled from the named fields of the bundle
BundleKeys == {"password", "username", "k", "s", "ds", "tk", "sig", "shaOne",
               "servertime", "fuid", "gid", "session_id", "baiduId"}

\* mutant of stringify_form: nothing is dropped
stringify_form_keeps_all(form) ==
    Map([i \in 1..Len(form.e) |->
            KV(form.e[i].k, IF form.e[i].v.t = "null" THEN Null ELSE StrV(PyStr(form.e[i].v)))])

\* the last step of _build_login_form_data: drop None and "", stringify the rest
stringify_form(form) ==
    LET kept == SelectSeq(form.e, LAMBDA kv : kv.v.t # "null" /\ PyStr(kv.v) # "")
    IN Map([i \in 1..Len(kept) |-> KV(kept[i].k, StrV(PyStr(kept[i].v)))])

build_login_form_data(params, anti_replay_token, extra_form_data) ==
    LET named == Map(<<KV("password", params.password), KV("username", params.username),
                       KV("k", params.k), KV("s", params.s), KV("ds", params.ds),
                       KV("tk", params.tk), KV("sig", params.sig),
                       KV("shaOne", params.sha_one), KV("servertime", params.servertime),
                       KV("fuid", params.fuid), KV("gid", params.gid),
                       KV("session_id", params.session_id),
                       KV("baiduId", params.baidu_id)>>)
        with_extras == Update(named, params.extras)
        with_token == IF Truthy(anti_replay_token.token)
                      THEN SetDefault(SetDefault(with_extras, "token", anti_replay_token.token),
                                      "antireplaytoken", anti_replay_token.token)
                      ELSE with_extras
        with_time == IF Truthy(anti_replay_token.servertime)
                     THEN SetDefault(with_token, "servertime", anti_replay_token.servertime)
                     ELSE with_token
        with_caller == IF Truthy(extra_form_data) THEN Update(with_time, extra_form_data)
                       ELSE with_time
    IN stringify_form(with_caller)

\* the truthy extras of a solution, as form items
solution_extras(solution) ==
    LET kept == SelectSeq(solution.extras, LAMBDA kv : kv.v # "")
    IN [i \in 1..Len(kept) |-> KV(kept[i].k, StrV(kept[i].v))]

\* mutant of merge_captcha_solution: the merged form starts empty
merge_captcha_solution_fresh(base_form_data, ch, solution) ==
    UpdateItems(DictSet(Map(<<>>), "verifycode", StrV(solution.verifycode)),
                solution_extras(solution))

\* mutant of merge_captcha_solution: the solution is merged onto the form sent last
merge_captcha_solution_onto_sent(base_form_data, ch, solution) ==
    LET with_code == DictSet(sent_form, "verifycode", StrV(solution.verifycode))
        code_str == PyOr(PyOr(solution.vcodestr, ch.vcodestr), ch.code_string)
        with_str == IF Truthy(code_str)
                    THEN DictSet(DictSet(with_code, "vcodestr", code_str),
                                 "codeString", code_str)
                    ELSE with_code
    IN UpdateItems(with_str, solution_extras(solution))

merge_captcha_solution(base_form_data, ch, solution) ==
    LET with_code == DictSet(base_form_data, "verifycode", StrV(solution.verifycode))
        code_str == PyOr(PyOr(solution.vcodestr, ch.vcodestr), ch.code_string)
        with_str == IF Truthy(code_str)
                    THEN DictSet(DictSet(with_code, "vcodestr", code_str),
                                 "codeString", code_str)
                    ELSE with_code
    IN UpdateItems(with_str, solution_extras(solution))

\* credential bundles get_encrypted_params may return: username and password
\* are never empty (jsrpc_client rejects such a bundle)
CredentialBundles == <<
    EncryptedLoginParams(StrV("ENCpw"), StrV("ENCuser"), StrV("k1"), StrV("s1"),
        StrV("ds1"), StrV("tk1"), StrV("sig1"), StrV("sha1"), StrV("1600"),
        StrV("fuid1"), StrV("gid1"), StrV("sid1"), StrV("bid1"),
        Map(<<KV("tpl", StrV("wise"))>>)),
    EncryptedLoginParams(StrV("ENCpw"), StrV("ENCuser"), Null, StrV(""),
        StrV("ds1"), StrV("tk1"), StrV("sig1"), Null, Null,
        StrV(""), IntV("0"), Null, StrV("bid1"),
        Map(<<KV("token", StrV("signedtok")), KV("traceid", StrV("")),
              KV("loginversion", IntV("4"))>>)),
    EncryptedLoginParams(StrV("ENCpw"), StrV("ENCuser"), StrV("k1"), StrV("s1"),
        Null, Null, StrV("sig1"), StrV("sha1"), StrV(""),
        Null, StrV("gid1"), StrV("sid1"), Null,
        Map(<<KV("gid", StrV("gid2")), KV("verifycode", Null)>>))
    >>

\* extra_form_data a caller of login() may pass
ExtraFormData == <<
    Null,
    Map(<<>>),
    Map(<<KV("tpl", StrV("pp")), KV("gid", StrV("")), KV("countrycode", IntV("86"))>>),
    Map(<<KV("password", Null), KV("servertime", StrV("1999")), KV("note", StrV(" "))>>)
    >>

\* the dict objects of a login() call: `held` is the object of login()'s
\* form_data, `sent` the object given to the last _send_login_request, `made`
\* the number of dict objects made so far (objects are numbered as made)
FormIds(held, sent, made) == [held |-> held, sent |-> sent, made |-> made]

NoIds == FormIds(0, 0, 0)

\* mutant of base_after_merge: the merge writes into the form it is given
base_after_merge_in_place(base_form_data, ch, solution) ==
    merge_captcha_solution(base_form_data, ch, solution)

\* the object passed as base_form_data once _merge_captcha_solution has
\* returned: every assignment of the merge goes to the copy dict(base_form_data)
base_after_merge(base_form_data, ch, solution) == base_form_data

\* the object _merge_captcha_solution returns: dict(...) makes a new one
merged_object(ids) == ids.made + 1

\* the value None where an EncryptedLoginParams, AntiReplayToken or form is expected
NoParams == [none |-> TRUE]
NoToken == [none |-> TRUE]
NoForm == [none |-> TRUE]

\* ------------------------------------------------------------ login(): steps
\* mutant of initial_challenge: the extracted descriptor is dropped for the default
initial_challenge_default(a) == DefaultChallenge

\* the descriptor login() holds after the first classification
initial_challenge(a) ==
    IF a.captcha_challenge = NoChallenge THEN DefaultChallenge ELSE a.captcha_challenge

\* mutant of next_challenge: the operands of "or" are swapped
next_challenge_keeps_previous(a, prev) ==
    IF prev # NoChallenge THEN prev ELSE a.captcha_challenge

\* challenge = analysis.captcha_challenge or challenge
next_challenge(a, prev) ==
    IF a.captcha_challenge # NoChallenge THEN a.captcha_challenge ELSE prev

Usernames == {"", "  ", " bob "}
Passwords == {"", "pw"}

\* mutant of captcha_loop_has_next: the range runs one attempt too far
captcha_loop_one_more(attempt, max_captcha_attempts) == attempt <= max_captcha_attempts

\* for attempt in range(1, max_captcha_attempts + 1): another iteration follows
captcha_loop_has_next(attempt, max_captcha_attempts) == attempt < max_captcha_attempts

NoArgs == [none |-> TRUE]
NoResponse == [none |-> TRUE]
NoRaw == [t |-> "unset", s |-> "", e |-> <<>>]
\* outbound events of one login(): start() calls, get_encrypted_params calls,
\* anti-replay logical requests, login POST logical requests, captcha callback
\* invocations
ZeroStats == [starts |-> 0, enc |-> 0, ar |-> 0, posts |-> 0, solver |-> 0]

Init ==
    /\ hashRev \in BOOLEAN
    /\ retry_policy \in [max_attempts : 1..MaxAttemptsBound,
                         backoff_seconds : {1}, max_backoff_seconds : {4}]
    /\ started = FALSE
    /\ http_client = "none"
    /\ jsrpc_started = FALSE
    /\ calls = 0
    /\ pc = "idle"
    /\ args = NoArgs
    /\ req_attempt = 0
    /\ last_error = Null
    /\ response = NoResponse
    /\ payload = Null
    /\ challenge = NoChallenge
    /\ cap_attempt = 0
    /\ solver_raw = NoRaw
    /\ result = NoResult
    /\ stats = ZeroStats
    /\ events = <<>>
    /\ encrypted_params = NoParams
    /\ ar_response = NoResponse
    /\ anti_replay = NoToken
    /\ form_data = NoForm
    /\ sent_form = NoForm
    /\ attempt_log = <<>>
    /\ sleeps = <<>>
    /\ first_form = NoForm
    /\ form_ids = NoIds
    /\ prev_sent = NoForm
    /\ analysis = NoAnalysis
    /\ candidate_keys = <<>>
    /\ found = NotRun
    /\ task_pc = <<>>
    /\ task_client = <<>>
    /\ clients = <<>>
    /\ client_ref = 0
    /\ sessions = 0
    /\ hashes = {}
    /\ hash_file = <<>>
    /\ add_log = <<>>
    /\ pending = <<>>
    /\ reopened = NotOpened
    /\ clock = 0
    /\ request = NoRequest
    /\ sent_log = <<>>
    /\ owns_jsrpc = TRUE
    /\ caller_pc = <<>>
    /\ caller_instance = <<>>
    /\ instances_made = 0
    /\ instance = 0
    /\ instance_lock = 0
    /\ request_lock = 0
    /\ loop_ready = <<>>
    /\ coroutines = <<>>
    /\ startup_lock = 0
    /\ client_started = FALSE

\* login() returns res
Finish(res) ==
    /\ result' = res
    /\ pc' = "done"

\* mutant of BeginRequest: one attempt counter runs on through all requests
BeginRequestCountsOn(which, st, ev) ==
    /\ pc' = which
    /\ result' = NoResult
    /\ req_attempt' = req_attempt + 1
    /\ last_error' = Null
    /\ stats' = IF which = "antireplay"
                THEN [st EXCEPT !.ar = @ + 1]
                ELSE [st EXCEPT !.posts = @ + 1]
    /\ events' = Append(ev, which)

\* mutant of BeginRequest: the attempt counter of the previous logical request
\* is carried over
BeginRequestKeepsAttempt(which, st, ev) ==
    /\ pc' = which
    /\ result' = NoResult
    /\ req_attempt' = (IF req_attempt = 0 THEN 1 ELSE req_attempt)
    /\ last_error' = Null
    /\ stats' = IF which = "antireplay"
                THEN [st EXCEPT !.ar = @ + 1]
                ELSE [st EXCEPT !.posts = @ + 1]
    /\ events' = Append(ev, which)

\* _request_with_retry is entered for the logical request `which` and sends attempt 1
BeginRequest(which, st, ev) ==
    IF http_client = "none"
    THEN /\ Finish(ErrorResult("HTTP client not initialised", "handler_error"))
         /\ stats' = st
         /\ events' = ev
         /\ UNCHANGED <<req_attempt, last_error>>
    ELSE /\ pc' = which
         /\ result' = NoResult
         /\ req_attempt' = 1
         /\ last_error' = Null
         /\ stats' = IF which = "antireplay"
                     THEN [st EXCEPT !.ar = @ + 1]
                     ELSE [st EXCEPT !.posts = @ + 1]
         /\ events' = Append(ev, which)

\* login(username, password, captcha_callback=..., max_captcha_attempts=...)
\* up to its first suspension: the argument checks, then start();
\* extra_form_data keeps its default, None
Login(username, password, has_callback, max_captcha_attempts) ==
    /\ pc = "idle"
    /\ calls < MaxCalls
    /\ calls' = calls + 1
    /\ args' = [username |-> username, password |-> password,
                has_callback |-> has_callback,
                max_captcha_attempts |-> max_captcha_attempts,
                extra_form_data |-> Null]
    /\ LET invalid == validate_login_args(username, password, max_captcha_attempts)
       IN IF invalid # NoResult
          THEN /\ Finish(invalid)
               /\ UNCHANGED <<http_client, stats, events>>
          ELSE IF started
          THEN /\ pc' = "encrypt"
               /\ stats' = [stats EXCEPT !.starts = @ + 1, !.enc = @ + 1]
               /\ events' = Append(events, "encrypt")
               /\ UNCHANGED <<http_client, result>>
          ELSE /\ http_client' = "open"
               /\ pc' = "jsrpc_start"
               /\ stats' = [stats EXCEPT !.starts = @ + 1]
               /\ UNCHANGED <<result, events>>
    /\ UNCHANGED <<singleton_state, life_state, wire_state, dedup_state, conc_state, pure_state, form_track, engine_log, form_state, ar_response,
                   hashRev, retry_policy, started, jsrpc_started, req_attempt, last_error,
                   response, payload, challenge, cap_attempt, solver_raw>>

\* the caller awaits handler.start() itself (or enters "async with handler");
\* a started handler returns at once
Start ==
    /\ pc = "idle"
    /\ ~started
    /\ http_client' = "open"
    /\ pc' = "start"
    /\ UNCHANGED <<singleton_state, life_state, wire_state, dedup_state, conc_state, pure_state, form_track, engine_log, form_state, ar_response,
                   hashRev, retry_policy, started, jsrpc_started, calls, args, req_attempt,
                   last_error, response, payload, challenge, cap_attempt, solver_raw, result,
                   stats, events>>

\* start(): self._jsrpc_client.start() returns; start() sets _started and, when
\* login() awaited it, login() goes on to get_encrypted_params
JsrpcStartReturns ==
    /\ pc \in {"start", "jsrpc_start"}
    /\ jsrpc_started' = TRUE
    /\ started' = TRUE
    /\ IF pc = "start"
       THEN /\ pc' = "idle"
            /\ UNCHANGED <<stats, events>>
       ELSE /\ pc' = "encrypt"
            /\ stats' = [stats EXCEPT !.enc = @ + 1]
            /\ events' = Append(events, "encrypt")
    /\ UNCHANGED <<singleton_state, life_state, wire_state, dedup_state, conc_state, pure_state, form_track, engine_log, form_state, ar_response,
                   hashRev, retry_policy, http_client, calls, args, req_attempt, last_error,
                   response, payload, challenge, cap_attempt, solver_raw, result>>

\* start(): self._jsrpc_client.start() raises; start() closes the HTTP client and
\* re-raises, and login() awaits start() outside its try block
JsrpcStartRaises ==
    /\ pc \in {"start", "jsrpc_start"}
    /\ ~jsrpc_started
    /\ http_client' = "none"
    /\ pc' = IF pc = "start" THEN "idle" ELSE "raised"
    /\ UNCHANGED <<singleton_state, life_state, wire_state, dedup_state, conc_state, pure_state, form_track, engine_log, form_state, ar_response,
                   hashRev, retry_policy, started, jsrpc_started, calls, args, req_attempt,
                   last_error, response, payload, challenge, cap_attempt, solver_raw, result,
                   stats, events>>

\* get_encrypted_params returns the credential bundle; _fetch_antireplay_token begins
EncryptReturns ==
    /\ pc = "encrypt"
    /\ encrypted_params' = CredentialBundles[1]
    /\ BeginRequest("antireplay", stats, events)
    /\ UNCHANGED <<singleton_state, life_state, wire_state, dedup_state, conc_state, pure_state, form_track, engine_log, anti_replay, form_data, sent_form, ar_response,
                   hashRev, retry_policy, started, http_client, jsrpc_started, calls, args,
                   response, payload, challenge, cap_attempt, solver_raw>>

\* get_encrypted_params raises BaiduLoginClientError (client_error) or another exception
EncryptRaises(client_error) ==
    /\ pc = "encrypt"
    /\ Finish(IF client_error THEN ErrorResult("JSRPC failed", "jsrpc_error")
              ELSE ErrorResult("unexpected exception", "unexpected_error"))
    /\ events' = Append(events, "encrypt_error")
    /\ UNCHANGED <<singleton_state, life_state, wire_state, dedup_state, conc_state, pure_state, form_track, engine_log, form_state, ar_response,
                   hashRev, retry_policy, started, http_client, jsrpc_started, calls, args,
                   req_attempt, last_error, response, payload, challenge, cap_attempt,
                   solver_raw, stats>>

\* _request_with_retry: the running attempt ends in httpx.RequestError
HttpTransportError ==
    /\ pc \in {"antireplay", "login_post"}
    /\ ar_response = NoResponse
    /\ last_error' = StrV("RequestError")
    /\ LET d == retry_decision(req_attempt, retry_policy.max_attempts, TRUE, 0)
       IN IF d = "retry"
          THEN /\ req_attempt' = req_attempt + 1
               /\ UNCHANGED <<pc, result, stats, events, sent_form>>
          ELSE /\ Finish(ErrorResult("request failed after retries", "handler_error"))
               /\ events' = Append(events, "request_error")
               /\ sent_form' = NoForm
               /\ UNCHANGED <<req_attempt, stats>>
    /\ UNCHANGED <<singleton_state, life_state, wire_state, dedup_state, conc_state, pure_state, form_track, engine_log, encrypted_params, anti_replay, form_data, ar_response,
                   hashRev, retry_policy, started, http_client, jsrpc_started, calls, args,
                   response, payload, challenge, cap_attempt, solver_raw>>

\* the anti-replay endpoint answers the running attempt with response r
AntiReplayAnswers(r) ==
    /\ pc = "antireplay"
    /\ ar_response = NoResponse
    /\ ar_response' = r
    /\ UNCHANGED <<singleton_state, life_state, wire_state, dedup_state, conc_state, pure_state, form_track, engine_log, form_state, hashRev, retry_policy, started, http_client,
                   jsrpc_started, calls, pc, args, req_attempt, last_error, response, payload,
                   challenge, cap_attempt, solver_raw, result, stats, events>>

\* the handler resumes with the answer: _request_with_retry retries or returns
\* it; on a returned answer _fetch_antireplay_token raises or gives the token,
\* and login() builds the form and begins the login POST
AntiReplayResponse ==
    /\ pc = "antireplay"
    /\ ar_response # NoResponse
    /\ ar_response' = NoResponse
    /\ LET r == ar_response
           d == retry_decision(req_attempt, retry_policy.max_attempts, FALSE, r.status)
           form == build_login_form_data(encrypted_params, antireplay_token(r),
                                         args.extra_form_data)
       IN IF d = "retry"
          THEN /\ req_attempt' = req_attempt + 1
               /\ UNCHANGED <<pc, result, stats, events, last_error, anti_replay, form_data,
                              sent_form>>
          ELSE IF antireplay_error(r) # ""
          THEN /\ Finish(ErrorResult(antireplay_error(r), "handler_error"))
               /\ events' = Append(events, "antireplay_error")
               /\ UNCHANGED <<req_attempt, stats, last_error, anti_replay, form_data,
                              sent_form>>
          ELSE /\ anti_replay' = antireplay_token(r)
               /\ form_data' = form
               /\ sent_form' = form
               /\ BeginRequest("login_post", stats, events)
    /\ UNCHANGED <<singleton_state, life_state, wire_state, dedup_state, conc_state, pure_state, form_track, engine_log, encrypted_params, hashRev, retry_policy, started, http_client,
                   jsrpc_started, calls, args, response, payload, challenge, cap_attempt,
                   solver_raw>>

\* the captcha loop invokes the callback for attempt n
InvokeCallback(n) ==
    /\ cap_attempt' = n
    /\ pc' = "solver"
    /\ result' = NoResult
    /\ solver_raw' = NoRaw
    /\ stats' = [stats EXCEPT !.solver = @ + 1]

\* the login endpoint answers the running attempt with response r; on a returned
\* response login() decodes and classifies it and acts on the classification
LoginPostResponse(r) ==
    /\ pc = "login_post"
    /\ LET d == retry_decision(req_attempt, retry_policy.max_attempts, FALSE, r.status)
           p == decode_response_body(r)
           a == analyze_login_response(r, p)
           ev == Append(events, a.status)
       IN IF d = "retry"
          THEN /\ req_attempt' = req_attempt + 1
               /\ UNCHANGED <<pc, result, stats, events, response, payload, challenge,
                              cap_attempt, solver_raw, sent_form>>
          ELSE /\ response' = r
               /\ payload' = p
               /\ sent_form' = NoForm
               /\ UNCHANGED req_attempt
               /\ IF a.status = "success"
                  THEN /\ Finish(SuccessResult(a, p))
                       /\ events' = ev
                       /\ UNCHANGED <<challenge, cap_attempt, solver_raw, stats>>
                  ELSE IF a.status = "failed"
                  THEN /\ Finish(FailedResult(a, p))
                       /\ events' = ev
                       /\ UNCHANGED <<challenge, cap_attempt, solver_raw, stats>>
                  ELSE IF cap_attempt = 0
                  THEN /\ challenge' = initial_challenge(a)
                       /\ IF ~args.has_callback
                          THEN /\ Finish(CaptchaRequiredResult(a.message, a.error_code, p,
                                                               initial_challenge(a)))
                               /\ events' = ev
                               /\ UNCHANGED <<cap_attempt, solver_raw, stats>>
                          ELSE /\ InvokeCallback(1)
                               /\ events' = Append(ev, "solver")
                  ELSE /\ challenge' = next_challenge(a, challenge)
                       /\ IF captcha_loop_has_next(cap_attempt, args.max_captcha_attempts)
                          THEN /\ InvokeCallback(cap_attempt + 1)
                               /\ events' = Append(ev, "solver")
                          ELSE /\ Finish(CaptchaRequiredResult(
                                      StrV("captcha attempts exhausted"),
                                      StrV("captcha_attempts_exhausted"), p,
                                      next_challenge(a, challenge)))
                               /\ events' = ev
                               /\ UNCHANGED <<cap_attempt, solver_raw, stats>>
    /\ UNCHANGED <<singleton_state, life_state, wire_state, dedup_state, conc_state, pure_state, form_track, engine_log, encrypted_params, anti_replay, form_data, ar_response,
                   hashRev, retry_policy, started, http_client, jsrpc_started, calls, args,
                   last_error>>

\* mutant of CallbackReturn: a resubmission fetches a new anti-replay token first
CallbackReturn_refetches(raw) ==
    /\ pc = "solver"
    /\ LET n == normalise_callback_result(raw, challenge)
       IN IF n.kind = "none"
          THEN /\ Finish(CaptchaRequiredResult(StrV("callback returned nothing usable"),
                                               StrV("captcha_callback_empty"),
                                               payload, challenge))
               /\ events' = Append(events, "solution_none")
               /\ UNCHANGED <<req_attempt, last_error, stats, sent_form>>
          ELSE IF n.kind = "raise"
          THEN /\ Finish(ErrorResult("callback return type unsupported", "handler_error"))
               /\ events' = Append(events, "solution_unsupported")
               /\ UNCHANGED <<req_attempt, last_error, stats, sent_form>>
          ELSE /\ sent_form' = merge_captcha_solution(form_data, challenge, n.sol)
               /\ BeginRequest("antireplay", stats, Append(events, "solution_ok"))
    /\ solver_raw' = raw
    /\ UNCHANGED <<singleton_state, life_state, wire_state, dedup_state, conc_state, pure_state, form_track, engine_log, encrypted_params, anti_replay, form_data, ar_response,
                   hashRev, retry_policy, started, http_client, jsrpc_started, calls, args,
                   response, payload, challenge, cap_attempt>>

\* the captcha callback returns raw; _invoke_captcha_callback normalises it and
\* login() ends, or merges the solution and resubmits
CallbackReturn(raw) ==
    /\ pc = "solver"
    /\ LET n == normalise_callback_result(raw, challenge)
       IN IF n.kind = "none"
          THEN /\ Finish(CaptchaRequiredResult(StrV("callback returned nothing usable"),
                                               StrV("captcha_callback_empty"),
                                               payload, challenge))
               /\ events' = Append(events, "solution_none")
               /\ UNCHANGED <<req_attempt, last_error, stats, sent_form>>
          ELSE IF n.kind = "raise"
          THEN /\ Finish(ErrorResult("callback return type unsupported", "handler_error"))
               /\ events' = Append(events, "solution_unsupported")
               /\ UNCHANGED <<req_attempt, last_error, stats, sent_form>>
          ELSE /\ sent_form' = merge_captcha_solution(form_data, challenge, n.sol)
               /\ BeginRequest("login_post", stats, Append(events, "solution_ok"))
    /\ solver_raw' = raw
    /\ UNCHANGED <<singleton_state, life_state, wire_state, dedup_state, conc_state, pure_state, form_track, engine_log, encrypted_params, anti_replay, form_data, ar_response,
                   hashRev, retry_policy, started, http_client, jsrpc_started, calls, args,
                   response, payload, challenge, cap_attempt>>

\* the captcha callback raises
CallbackRaises ==
    /\ pc = "solver"
    /\ Finish(ErrorResult("unexpected exception", "unexpected_error"))
    /\ events' = Append(events, "solution_raised")
    /\ solver_raw' = NoRaw
    /\ UNCHANGED <<singleton_state, life_state, wire_state, dedup_state, conc_state, pure_state, form_track, engine_log, form_state, ar_response,
                   hashRev, retry_policy, started, http_client, jsrpc_started, calls, args,
                   req_attempt, last_error, response, payload, challenge, cap_attempt, stats>>

\* the caller has the outcome of login(); the handler is free for the next call
Return ==
    /\ pc \in {"done", "raised"}
    /\ pc' = "idle"
    /\ args' = NoArgs
    /\ req_attempt' = 0
    /\ last_error' = Null
    /\ response' = NoResponse
    /\ payload' = Null
    /\ challenge' = NoChallenge
    /\ cap_attempt' = 0
    /\ solver_raw' = NoRaw
    /\ result' = NoResult
    /\ stats' = ZeroStats
    /\ events' = <<>>
    /\ encrypted_params' = NoParams
    /\ anti_replay' = NoToken
    /\ form_data' = NoForm
    /\ sent_form' = NoForm
    /\ UNCHANGED <<singleton_state, life_state, wire_state, dedup_state, conc_state, pure_state, form_track, engine_log, ar_response, hashRev, retry_policy, started, http_client,
                   jsrpc_started, calls>>

Next ==
    \/ \E u \in Usernames, p \in Passwords, cb \in BOOLEAN, m \in -1..MaxCaptchaAttempts :
          Login(u, p, cb, m)
    \/ Start
    \/ JsrpcStartReturns
    \/ JsrpcStartRaises
    \/ EncryptReturns
    \/ \E ce \in BOOLEAN : EncryptRaises(ce)
    \/ HttpTransportError
    \/ \E i \in 1..Len(AntiReplayResponses) : AntiReplayAnswers(AntiReplayResponses[i])
    \/ AntiReplayResponse
    \/ \E i \in 1..Len(LoginResponses) : LoginPostResponse(LoginResponses[i])
    \/ \E i \in 1..Len(CallbackValues) : CallbackReturn(CallbackValues[i])
    \/ CallbackRaises
    \/ Return

Spec == Init /\ [][Next]_vars

\* ------------------------------------- the Retry/Backoff Engine on its own
\* one logical request through _request_with_retry, on a handler with or
\* without an HTTP client, under any RetryPolicy that validate() accepts
RetryInit ==
    /\ hashRev = FALSE
    /\ retry_policy \in [max_attempts : 1..MaxEngineAttempts,
                         backoff_seconds : 0..MaxBackoff,
                         max_backoff_seconds : 1..MaxCap]
    /\ http_client \in {"none", "open"}
    /\ started = (http_client = "open")
    /\ jsrpc_started = started
    /\ calls = 0
    /\ pc = "idle"
    /\ args = NoArgs
    /\ req_attempt = 0
    /\ last_error = Null
    /\ response = NoResponse
    /\ payload = Null
    /\ challenge = NoChallenge
    /\ cap_attempt = 0
    /\ solver_raw = NoRaw
    /\ result = NoResult
    /\ stats = ZeroStats
    /\ events = <<>>
    /\ encrypted_params = NoParams
    /\ ar_response = NoResponse
    /\ anti_replay = NoToken
    /\ form_data = NoForm
    /\ sent_form = NoForm
    /\ attempt_log = <<>>
    /\ sleeps = <<>>
    /\ first_form = NoForm
    /\ form_ids = NoIds
    /\ prev_sent = NoForm
    /\ analysis = NoAnalysis
    /\ candidate_keys = <<>>
    /\ found = NotRun
    /\ task_pc = <<>>
    /\ task_client = <<>>
    /\ clients = <<>>
    /\ client_ref = 0
    /\ sessions = 0
    /\ hashes = {}
    /\ hash_file = <<>>
    /\ add_log = <<>>
    /\ pending = <<>>
    /\ reopened = NotOpened
    /\ clock = 0
    /\ request = NoRequest
    /\ sent_log = <<>>
    /\ owns_jsrpc = TRUE
    /\ caller_pc = <<>>
    /\ caller_instance = <<>>
    /\ instances_made = 0
    /\ instance = 0
    /\ instance_lock = 0
    /\ request_lock = 0
    /\ loop_ready = <<>>
    /\ coroutines = <<>>
    /\ startup_lock = 0
    /\ client_started = FALSE

\* _request_with_retry is called: the client check, then attempt 1 is sent
RequestWithRetry ==
    /\ pc = "idle"
    /\ req_attempt = 0
    /\ IF http_client = "none"
       THEN /\ pc' = "rq_no_client"
            /\ UNCHANGED req_attempt
       ELSE /\ pc' = "rq_sending"
            /\ req_attempt' = 1
    /\ UNCHANGED <<singleton_state, life_state, wire_state, dedup_state, conc_state, pure_state, form_track, engine_log, form_state, ar_response,
                   hashRev, retry_policy, started, http_client, jsrpc_started,
                   calls, args, last_error, response, payload, challenge, cap_attempt,
                   solver_raw, result, stats, events>>

\* what the loop does once the running attempt has ended as `outcome`
AttemptEnds(outcome) ==
    /\ pc = "rq_sending"
    /\ attempt_log' = Append(attempt_log, outcome)
    /\ last_error' = IF outcome.error
                     THEN StrV("RequestError of attempt " \o ToString(req_attempt))
                     ELSE last_error
    /\ LET d == retry_decision(req_attempt, retry_policy.max_attempts,
                               outcome.error, outcome.status)
       IN IF d = "retry"
          THEN /\ sleeps' = Append(sleeps, retry_delay(retry_policy, req_attempt))
               /\ req_attempt' = req_attempt + 1
               /\ UNCHANGED pc
          ELSE /\ pc' = IF d = "raise" THEN "rq_failed" ELSE "rq_returned"
               /\ UNCHANGED <<sleeps, req_attempt>>
    /\ UNCHANGED <<singleton_state, life_state, wire_state, dedup_state, conc_state, pure_state, form_track, form_state, ar_response, hashRev, retry_policy, started, http_client,
                   jsrpc_started, calls, args, response, payload, challenge, cap_attempt,
                   solver_raw, result, stats, events>>

\* the running attempt ends in httpx.RequestError
AttemptFails == AttemptEnds(TransportError)

\* the running attempt is answered with a response of this status
AttemptAnswered(status) == AttemptEnds(Answered(status))

RetryNext ==
    \/ RequestWithRetry
    \/ AttemptFails
    \/ \E status \in Statuses : AttemptAnswered(status)

RetrySpec == RetryInit /\ [][RetryNext]_vars

\* ------------------------------------- the Login Form Builder on its own
\* tokens _fetch_antireplay_token returns for the answers it accepts
AntiReplayTokens ==
    {antireplay_token(AntiReplayResponses[i]) :
        i \in {j \in 1..Len(AntiReplayResponses) :
                  /\ AntiReplayResponses[j].status < 400
                  /\ antireplay_error(AntiReplayResponses[j]) = ""}}

\* descriptors _extract_captcha_challenge gives for the login answers
FormChallenges ==
    {DefaultChallenge} \cup
    {extract_captcha_challenge(decode_response_body(LoginResponses[i])) : i \in {2, 4, 11}}

\* further values a captcha callback may return: solutions and mappings whose
\* extras name keys of the signed form
FormCallbackValues == <<
    CaptchaSolution("9", Null,
        <<KV("gid", "own-gid"), KV("password", ""), KV("token", "")>>),
    CaptchaSolution(" 9", StrV(""), <<KV("servertime", "2000"), KV("verifycode", "8")>>),
    Map(<<KV("code", IntV("9")), KV("gid", IntV("7")), KV("k", Null), KV("s", StrV("")),
          KV("code_string", IntV("5"))>>),
    Map(<<KV("code", StrV("9")), KV("codeString", StrV("other"))>>)
    >>

FormInit ==
    /\ hashRev = FALSE
    /\ retry_policy = [max_attempts |-> 1, backoff_seconds |-> 1, max_backoff_seconds |-> 4]
    /\ http_client = "open"
    /\ started = TRUE
    /\ jsrpc_started = TRUE
    /\ calls = 0
    /\ pc = "form_idle"
    /\ \E i \in 1..Len(ExtraFormData) :
          args = [username |-> "user", password |-> "pw", has_callback |-> TRUE,
                  max_captcha_attempts |-> MaxCaptchaAttempts,
                  extra_form_data |-> ExtraFormData[i]]
    /\ req_attempt = 0
    /\ last_error = Null
    /\ response = NoResponse
    /\ payload = Null
    /\ challenge = NoChallenge
    /\ cap_attempt = 0
    /\ solver_raw = NoRaw
    /\ result = NoResult
    /\ stats = ZeroStats
    /\ events = <<>>
    /\ \E i \in 1..Len(CredentialBundles) : encrypted_params = CredentialBundles[i]
    /\ ar_response = NoResponse
    /\ anti_replay \in AntiReplayTokens
    /\ form_data = NoForm
    /\ sent_form = NoForm
    /\ attempt_log = <<>>
    /\ sleeps = <<>>
    /\ first_form = NoForm
    /\ form_ids = NoIds
    /\ prev_sent = NoForm
    /\ analysis = NoAnalysis
    /\ candidate_keys = <<>>
    /\ found = NotRun
    /\ task_pc = <<>>
    /\ task_client = <<>>
    /\ clients = <<>>
    /\ client_ref = 0
    /\ sessions = 0
    /\ hashes = {}
    /\ hash_file = <<>>
    /\ add_log = <<>>
    /\ pending = <<>>
    /\ reopened = NotOpened
    /\ clock = 0
    /\ request = NoRequest
    /\ sent_log = <<>>
    /\ owns_jsrpc = TRUE
    /\ caller_pc = <<>>
    /\ caller_instance = <<>>
    /\ instances_made = 0
    /\ instance = 0
    /\ instance_lock = 0
    /\ request_lock = 0
    /\ loop_ready = <<>>
    /\ coroutines = <<>>
    /\ startup_lock = 0
    /\ client_started = FALSE

\* login(): the initial form is built and handed to _send_login_request
BuildForm ==
    /\ pc = "form_idle"
    /\ form_data' = build_login_form_data(encrypted_params, anti_replay, args.extra_form_data)
    /\ sent_form' = form_data'
    /\ first_form' = form_data'
    /\ form_ids' = FormIds(1, 1, 1)
    /\ prev_sent' = NoForm
    /\ pc' = "form_built"
    /\ UNCHANGED <<singleton_state, life_state, wire_state, dedup_state, conc_state, pure_state, engine_log, encrypted_params, anti_replay, ar_response, hashRev,
                   retry_policy, started, http_client, jsrpc_started, calls, args,
                   req_attempt, last_error, response, payload, challenge, cap_attempt,
                   solver_raw, result, stats, events>>

\* the captcha loop: the callback's value raw for descriptor ch is normalised
\* and the solution merged into the initial form, which is sent
MergeSolution(ch, raw) ==
    /\ pc \in {"form_built", "form_merged"}
    /\ cap_attempt < args.max_captcha_attempts
    /\ normalise_callback_result(raw, ch).kind = "ok"
    /\ cap_attempt' = cap_attempt + 1
    /\ challenge' = ch
    /\ solver_raw' = raw
    /\ sent_form' = merge_captcha_solution(form_data, ch, normalise_callback_result(raw, ch).sol)
    /\ form_data' = base_after_merge(form_data, ch, normalise_callback_result(raw, ch).sol)
    /\ LET object == merged_object(form_ids)
       IN form_ids' = FormIds(form_ids.held, object,
                              IF object > form_ids.made THEN object ELSE form_ids.made)
    /\ prev_sent' = sent_form
    /\ pc' = "form_merged"
    /\ UNCHANGED <<singleton_state, life_state, wire_state, dedup_state, conc_state, pure_state, engine_log, encrypted_params, anti_replay, first_form, ar_response,
                   hashRev, retry_policy, started, http_client, jsrpc_started, calls, args,
                   req_attempt, last_error, response, payload, result, stats, events>>

FormNext ==
    \/ BuildForm
    \/ \E ch \in FormChallenges :
          \/ \E i \in 1..Len(CallbackValues) : MergeSolution(ch, CallbackValues[i])
          \/ \E i \in 1..Len(FormCallbackValues) : MergeSolution(ch, FormCallbackValues[i])

FormSpec == FormInit /\ [][FormNext]_vars

\* ------------------------------------- concurrent login() calls on one handler
\* the calls are asyncio tasks of one event loop: a step runs from one await
\* that suspends to the next; every collaborator answers well unless it is the
\* encryptor's start that fails
Tasks == 1..MaxTasks

ConcInit ==
    /\ hashRev = FALSE
    /\ retry_policy = [max_attempts |-> 1, backoff_seconds |-> 1, max_backoff_seconds |-> 4]
    /\ started \in BOOLEAN
    /\ jsrpc_started \in BOOLEAN
    /\ started => jsrpc_started
    /\ http_client = (IF started THEN "open" ELSE "none")
    /\ calls = 0
    /\ pc = "concurrent"
    /\ args = NoArgs
    /\ req_attempt = 0
    /\ last_error = Null
    /\ response = NoResponse
    /\ payload = Null
    /\ challenge = NoChallenge
    /\ cap_attempt = 0
    /\ solver_raw = NoRaw
    /\ result = NoResult
    /\ stats = ZeroStats
    /\ events = <<>>
    /\ encrypted_params = NoParams
    /\ ar_response = NoResponse
    /\ anti_replay = NoToken
    /\ form_data = NoForm
    /\ sent_form = NoForm
    /\ attempt_log = <<>>
    /\ sleeps = <<>>
    /\ first_form = NoForm
    /\ form_ids = NoIds
    /\ prev_sent = NoForm
    /\ analysis = NoAnalysis
    /\ candidate_keys = <<>>
    /\ found = NotRun
    /\ task_pc = [t \in Tasks |-> "new"]
    /\ task_client = [t \in Tasks |-> 0]
    /\ clients = (IF started THEN <<"open">> ELSE <<>>)
    /\ client_ref = (IF started THEN 1 ELSE 0)
    /\ sessions = (IF jsrpc_started THEN 1 ELSE 0)
    /\ hashes = {}
    /\ hash_file = <<>>
    /\ add_log = <<>>
    /\ pending = <<>>
    /\ reopened = NotOpened
    /\ clock = 0
    /\ request = NoRequest
    /\ sent_log = <<>>
    /\ owns_jsrpc = TRUE
    /\ caller_pc = <<>>
    /\ caller_instance = <<>>
    /\ instances_made = 0
    /\ instance = 0
    /\ instance_lock = 0
    /\ request_lock = 0
    /\ loop_ready = <<>>
    /\ coroutines = <<>>
    /\ startup_lock = 0
    /\ client_started = FALSE

\* login() of task t runs to its first suspension: the arguments are valid,
\* start() returns at once on a started handler, else it makes a client and
\* calls the encryptor's start(), which returns at once when it is started and
\* else suspends in the browser launch
TaskCallsLogin(t) ==
    /\ task_pc[t] = "new"
    /\ IF started
       THEN /\ task_pc' = [task_pc EXCEPT ![t] = "encrypt"]
            /\ UNCHANGED <<clients, client_ref, started, http_client>>
       ELSE /\ clients' = Append(clients, "open")
            /\ client_ref' = Len(clients) + 1
            /\ http_client' = "open"
            /\ IF jsrpc_started
               THEN /\ started' = TRUE
                    /\ task_pc' = [task_pc EXCEPT ![t] = "encrypt"]
               ELSE /\ started' = started
                    /\ task_pc' = [task_pc EXCEPT ![t] = "jsrpc_start"]
    /\ UNCHANGED <<singleton_state, life_state, wire_state, dedup_state, engine_log, form_state, form_track, pure_state, task_client, sessions,
                   ar_response, hashRev, retry_policy, jsrpc_started, calls, pc, args,
                   req_attempt, last_error, response, payload, challenge, cap_attempt,
                   solver_raw, result, stats, events>>

\* the browser launch of task t's BaiduLoginJSRPCClient.start() completes
TaskJsrpcStartReturns(t) ==
    /\ task_pc[t] = "jsrpc_start"
    /\ sessions' = sessions + 1
    /\ jsrpc_started' = TRUE
    /\ started' = TRUE
    /\ task_pc' = [task_pc EXCEPT ![t] = "encrypt"]
    /\ UNCHANGED <<singleton_state, life_state, wire_state, dedup_state, engine_log, form_state, form_track, pure_state, task_client, clients,
                   client_ref, ar_response, hashRev, retry_policy, http_client, calls, pc,
                   args, req_attempt, last_error, response, payload, challenge, cap_attempt,
                   solver_raw, result, stats, events>>

\* the browser launch of task t fails: the encryptor closes itself, start()
\* closes the client self._http_client refers to and login() raises
TaskJsrpcStartRaises(t) ==
    /\ task_pc[t] = "jsrpc_start"
    /\ jsrpc_started' = FALSE
    /\ clients' = IF client_ref = 0 THEN clients
                  ELSE [clients EXCEPT ![client_ref] = "closed"]
    /\ client_ref' = 0
    /\ http_client' = "none"
    /\ task_pc' = [task_pc EXCEPT ![t] = "raised"]
    /\ UNCHANGED <<singleton_state, life_state, wire_state, dedup_state, engine_log, form_state, form_track, pure_state, task_client, sessions,
                   ar_response, hashRev, retry_policy, started, calls, pc, args, req_attempt,
                   last_error, response, payload, challenge, cap_attempt, solver_raw, result,
                   stats, events>>

\* the encryptor returns task t's bundle and _request_with_retry reads
\* self._http_client for the anti-replay GET
TaskEncryptReturns(t) ==
    /\ task_pc[t] = "encrypt"
    /\ IF client_ref = 0
       THEN /\ task_pc' = [task_pc EXCEPT ![t] = "done_error"]
            /\ UNCHANGED task_client
       ELSE /\ task_client' = [task_client EXCEPT ![t] = client_ref]
            /\ task_pc' = [task_pc EXCEPT ![t] = "request"]
    /\ UNCHANGED <<singleton_state, life_state, wire_state, dedup_state, engine_log, form_state, form_track, pure_state, clients, client_ref,
                   sessions, ar_response, hashRev, retry_policy, started, http_client,
                   jsrpc_started, calls, pc, args, req_attempt, last_error, response, payload,
                   challenge, cap_attempt, solver_raw, result, stats, events>>

\* task t's requests are answered: on a closed client they fail in transport
TaskRequestsEnd(t) ==
    /\ task_pc[t] = "request"
    /\ task_pc' = [task_pc EXCEPT ![t] = IF clients[task_client[t]] = "closed"
                                         THEN "done_error" ELSE "done_ok"]
    /\ UNCHANGED <<singleton_state, life_state, wire_state, dedup_state, engine_log, form_state, form_track, pure_state, task_client, clients,
                   client_ref, sessions, ar_response, hashRev, retry_policy, started,
                   http_client, jsrpc_started, calls, pc, args, req_attempt, last_error,
                   response, payload, challenge, cap_attempt, solver_raw, result, stats,
                   events>>

ConcNext ==
    \E t \in Tasks :
        \/ TaskCallsLogin(t)
        \/ TaskJsrpcStartReturns(t)
        \/ TaskJsrpcStartRaises(t)
        \/ TaskEncryptReturns(t)
        \/ TaskRequestsEnd(t)

ConcSpec == ConcInit /\ [][ConcNext]_vars

\* ------------------------------------- the DedupManager on its own
\* payloads given to add(): two of them are different byte strings with the
\* same MD5 digest
Payloads == {"img1", "img2", "collide_a", "collide_b"}

\* compute_hash(data): hashlib.md5(data).hexdigest()
compute_hash(data) ==
    CASE data = "img1" -> "0cc1"
      [] data = "img2" -> "92eb"
      [] data = "collide_a" -> "7905"
      [] data = "collide_b" -> "7905"

\* exists(data)
dedup_exists(data) == compute_hash(data) \in hashes

\* len(manager)
dedup_len == Cardinality(hashes)

\* mutant of dedup_add: the membership test is missing
dedup_add_always(known, lines, hash_value) ==
    [hashes |-> known \cup {hash_value}, hash_file |-> Append(lines, hash_value)]

\* add(): the part under the lock, for the set `known` and the file's `lines`
dedup_add(known, lines, hash_value) ==
    IF hash_value \in known
    THEN [hashes |-> known, hash_file |-> lines]
    ELSE [hashes |-> known \cup {hash_value}, hash_file |-> Append(lines, hash_value)]

\* _load_hashes(): the set of the file's non-blank lines
load_hashes(lines) == {lines[i] : i \in 1..Len(lines)} \ {""}

Threads == 1..MaxThreads

DedupInit ==
    /\ hashRev = FALSE
    /\ retry_policy = [max_attempts |-> 1, backoff_seconds |-> 1, max_backoff_seconds |-> 4]
    /\ http_client = "none"
    /\ started = FALSE
    /\ jsrpc_started = FALSE
    /\ calls = 0
    /\ pc = "dedup"
    /\ args = NoArgs
    /\ req_attempt = 0
    /\ last_error = Null
    /\ response = NoResponse
    /\ payload = Null
    /\ challenge = NoChallenge
    /\ cap_attempt = 0
    /\ solver_raw = NoRaw
    /\ result = NoResult
    /\ stats = ZeroStats
    /\ events = <<>>
    /\ encrypted_params = NoParams
    /\ ar_response = NoResponse
    /\ anti_replay = NoToken
    /\ form_data = NoForm
    /\ sent_form = NoForm
    /\ attempt_log = <<>>
    /\ sleeps = <<>>
    /\ first_form = NoForm
    /\ form_ids = NoIds
    /\ prev_sent = NoForm
    /\ analysis = NoAnalysis
    /\ candidate_keys = <<>>
    /\ found = NotRun
    /\ task_pc = <<>>
    /\ task_client = <<>>
    /\ clients = <<>>
    /\ client_ref = 0
    /\ sessions = 0
    /\ hashes = {}
    /\ hash_file = <<>>
    /\ add_log = <<>>
    /\ pending = [t \in Threads |-> NoCall]
    /\ reopened = NotOpened
    /\ clock = 0
    /\ request = NoRequest
    /\ sent_log = <<>>
    /\ owns_jsrpc = TRUE
    /\ caller_pc = <<>>
    /\ caller_instance = <<>>
    /\ instances_made = 0
    /\ instance = 0
    /\ instance_lock = 0
    /\ request_lock = 0
    /\ loop_ready = <<>>
    /\ coroutines = <<>>
    /\ startup_lock = 0
    /\ client_started = FALSE

\* thread t calls add(data): the hash is computed before the lock is taken
AddCalled(t, data) ==
    /\ pending[t] = NoCall
    /\ Len(add_log) + Cardinality({u \in Threads : pending[u] # NoCall}) < MaxAdds
    /\ pending' = [pending EXCEPT ![t] = [data |-> data, hash_value |-> compute_hash(data)]]
    /\ UNCHANGED <<singleton_state, life_state, wire_state, hashes, hash_file, add_log, reopened, conc_state, pure_state, form_track,
                   engine_log, form_state, ar_response, hashRev, retry_policy, started,
                   http_client, jsrpc_started, calls, pc, args, req_attempt, last_error,
                   response, payload, challenge, cap_attempt, solver_raw, result, stats,
                   events>>

\* thread t takes the lock, tests and adds the hash, appends it to the file,
\* releases the lock and add() returns
AddReturns(t) ==
    /\ pending[t] # NoCall
    /\ LET after == dedup_add(hashes, hash_file, pending[t].hash_value)
       IN /\ hashes' = after.hashes
          /\ hash_file' = after.hash_file
    /\ add_log' = Append(add_log, pending[t].data)
    /\ pending' = [pending EXCEPT ![t] = NoCall]
    /\ UNCHANGED <<singleton_state, life_state, wire_state, reopened, conc_state, pure_state, form_track, engine_log, form_state,
                   ar_response, hashRev, retry_policy, started, http_client, jsrpc_started,
                   calls, pc, args, req_attempt, last_error, response, payload, challenge,
                   cap_attempt, solver_raw, result, stats, events>>

\* a new DedupManager is made on the same file and loads it
Reopen ==
    /\ IF reopened = NotOpened THEN TRUE ELSE reopened.adds # Len(add_log)
    /\ reopened' = [hashes |-> load_hashes(hash_file), adds |-> Len(add_log)]
    /\ UNCHANGED <<singleton_state, life_state, wire_state, hashes, hash_file, add_log, pending, conc_state, pure_state, form_track,
                   engine_log, form_state, ar_response, hashRev, retry_policy, started,
                   http_client, jsrpc_started, calls, pc, args, req_attempt, last_error,
                   response, payload, challenge, cap_attempt, solver_raw, result, stats,
                   events>>

DedupNext ==
    \/ \E t \in Threads, data \in Payloads : AddCalled(t, data)
    \/ \E t \in Threads : AddReturns(t)
    \/ Reopen

DedupSpec == DedupInit /\ [][DedupNext]_vars

\* ------------------------------------- the Nested Field Extractor on its own
\* scalars, and trees of maps and sequences up to three levels deep
Leaves == {Null, StrV(""), StrV("v1"), IntV("0")}

Trees1 == {Map(<<KV(k, l)>>) : k \in {"a", "x"}, l \in Leaves}

Trees2 ==
    {Map(<<KV("x", t), KV(k, l)>>) :
        t \in Trees1 \cup {List(<<u>>) : u \in Trees1}, k \in {"a", "b"},
        l \in {Null, StrV("v2")}}
    \cup {List(<<l, t>>) : l \in {Null, StrV("a")}, t \in Trees1}

Trees3 ==
    {Map(<<KV("data", List(<<IntV("7"), Map(<<KV("x", t), KV("b", StrV(""))>>)>>))>>) :
        t \in Trees1}
    \cup {List(<<Map(<<KV("x", List(<<t>>))>>), Map(<<KV("b", l)>>)>>) :
            t \in Trees1, l \in {Null, StrV("v3")}}

\* a candidate key that is null or empty near the root, above deeper matches
Trees4 ==
    {List(<<Map(<<KV("a", e), KV("x", List(<<t>>))>>), Map(<<KV("b", l)>>)>>) :
        e \in {Null, StrV("")}, t \in Trees1, l \in {Null, StrV("v3")}}

Trees == Leaves \cup Trees1 \cup Trees2 \cup Trees3 \cup Trees4 \cup {Map(<<>>), List(<<>>)}

\* candidate key sets, in the order the set is walked
KeySets == {<<>>, <<"a">>, <<"b">>, <<"a", "b">>, <<"zz">>}

ExtractInit ==
    /\ hashRev \in BOOLEAN
    /\ retry_policy = [max_attempts |-> 1, backoff_seconds |-> 1, max_backoff_seconds |-> 4]
    /\ http_client = "open"
    /\ started = TRUE
    /\ jsrpc_started = TRUE
    /\ calls = 0
    /\ pc = "extract_idle"
    /\ args = NoArgs
    /\ req_attempt = 0
    /\ last_error = Null
    /\ response = NoResponse
    /\ payload \in Trees
    /\ challenge = NoChallenge
    /\ cap_attempt = 0
    /\ solver_raw = NoRaw
    /\ result = NoResult
    /\ stats = ZeroStats
    /\ events = <<>>
    /\ encrypted_params = NoParams
    /\ ar_response = NoResponse
    /\ anti_replay = NoToken
    /\ form_data = NoForm
    /\ sent_form = NoForm
    /\ attempt_log = <<>>
    /\ sleeps = <<>>
    /\ first_form = NoForm
    /\ form_ids = NoIds
    /\ prev_sent = NoForm
    /\ analysis = NoAnalysis
    /\ candidate_keys \in KeySets
    /\ found = NotRun
    /\ task_pc = <<>>
    /\ task_client = <<>>
    /\ clients = <<>>
    /\ client_ref = 0
    /\ sessions = 0
    /\ hashes = {}
    /\ hash_file = <<>>
    /\ add_log = <<>>
    /\ pending = <<>>
    /\ reopened = NotOpened
    /\ clock = 0
    /\ request = NoRequest
    /\ sent_log = <<>>
    /\ owns_jsrpc = TRUE
    /\ caller_pc = <<>>
    /\ caller_instance = <<>>
    /\ instances_made = 0
    /\ instance = 0
    /\ instance_lock = 0
    /\ request_lock = 0
    /\ loop_ready = <<>>
    /\ coroutines = <<>>
    /\ startup_lock = 0
    /\ client_started = FALSE

\* _find_first_value(payload, keys) returns
FindFirstValue ==
    /\ pc = "extract_idle"
    /\ found' = find_first_value(payload, candidate_keys)
    /\ pc' = "extracted"
    /\ UNCHANGED <<singleton_state, life_state, wire_state, dedup_state, conc_state, engine_log, form_state, form_track, analysis, candidate_keys,
                   ar_response, hashRev, retry_policy, started, http_client, jsrpc_started,
                   calls, args, req_attempt, last_error, response, payload, challenge,
                   cap_attempt, solver_raw, result, stats, events>>

ExtractNext == FindFirstValue

ExtractSpec == ExtractInit /\ [][ExtractNext]_vars

\* ------------------------------------- the Response Classifier on its own
\* parts a login answer's JSON object is put together from
CodeParts == {<<>>, <<KV("errno", IntV("0"))>>, <<KV("errno", StrV("4"))>>,
              <<KV("code", StrV("120021"))>>, <<KV("err_no", StrV("success"))>>,
              <<KV("errNo", StrV("OK"))>>, <<KV("errno", IntV("6"))>>}

VerificationParts == {<<>>, <<KV("vcodestr", StrV("xyz"))>>, <<KV("codeString", StrV(""))>>,
                      <<KV("data", Map(<<KV("captchaUrl", StrV("/img/1"))>>))>>}

MessageParts == {<<>>, <<KV("msg", StrV("bad password"))>>,
                 <<KV("errmsg", StrV("Need CAPTCHA now"))>>,
                 <<KV("message", StrV("need #*#"))>>}

ErrInfoParts == {<<>>, <<KV("errInfo", Map(<<KV("no", StrV("0"))>>))>>,
                 <<KV("errInfo", Map(<<KV("no", StrV("400032")), KV("msg", StrV("locked"))>>))>>}

TokenParts == {<<>>, <<KV("BDUSS", StrV("abc123"))>>}

\* where an answer may carry a BDUSS: the cookie jar, the Set-Cookie headers
\* (null stands for a header without BDUSS), the body
TokenCookies == {Null, StrV(""), StrV("ck1")}

TokenHeaders == {<<>>, <<Null, StrV("sc1")>>, <<StrV("sc1"), StrV("sc2")>>, <<StrV("")>>}

TokenBodies ==
    {Map(<<KV("errno", IntV("0"))>>),
     Map(<<KV("errno", IntV("0")), KV("BDUSS", StrV("abc123"))>>),
     Map(<<KV("errno", IntV("0")), KV("data", Map(<<KV("bduss", StrV("deep"))>>))>>),
     Map(<<KV("errno", IntV("0")), KV("BDUSS", StrV("  ")),
           KV("data", Map(<<KV("bdus", StrV("deep"))>>))>>),
     Map(<<KV("errno", IntV("0")), KV("BDUSS", StrV("")), KV("bduss", StrV(" b2 "))>>),
     Map(<<KV("errno", IntV("0")), KV("BDUSS", Null), KV("bdus", IntV("7"))>>)}

TokenResponses ==
    {JsonResponse(200, c, h, b) : c \in TokenCookies, h \in TokenHeaders, b \in TokenBodies}

\* answers of the login endpoint: the JSON objects made of the parts, bodies
\* that are no JSON object, and the answers of the login flow's catalogue
ClassifierResponses ==
    {JsonResponse(200, Null, <<>>, Map(c \o v \o m \o i \o t)) :
        c \in CodeParts, v \in VerificationParts, m \in MessageParts,
        i \in ErrInfoParts, t \in TokenParts}
    \cup {TextResponse(200, "please enter CAPTCHA"), TextResponse(200, "welcome"),
          TextResponse(500, "need #*#"), TextResponse(200, ""),
          JsonResponse(200, Null, <<>>, List(<<StrV("captcha")>>)),
          JsonResponse(200, StrV("ck1"), <<>>, Map(<<KV("errno", StrV("4"))>>))}
    \cup {LoginResponses[i] : i \in 1..Len(LoginResponses)}
    \cup TokenResponses

ClassifyInit ==
    /\ hashRev \in BOOLEAN
    /\ retry_policy = [max_attempts |-> 1, backoff_seconds |-> 1, max_backoff_seconds |-> 4]
    /\ http_client = "open"
    /\ started = TRUE
    /\ jsrpc_started = TRUE
    /\ calls = 0
    /\ pc = "classify_idle"
    /\ args = NoArgs
    /\ req_attempt = 0
    /\ last_error = Null
    /\ response \in ClassifierResponses
    /\ payload = Null
    /\ challenge = NoChallenge
    /\ cap_attempt = 0
    /\ solver_raw = NoRaw
    /\ result = NoResult
    /\ stats = ZeroStats
    /\ events = <<>>
    /\ encrypted_params = NoParams
    /\ ar_response = NoResponse
    /\ anti_replay = NoToken
    /\ form_data = NoForm
    /\ sent_form = NoForm
    /\ attempt_log = <<>>
    /\ sleeps = <<>>
    /\ first_form = NoForm
    /\ form_ids = NoIds
    /\ prev_sent = NoForm
    /\ analysis = NoAnalysis
    /\ candidate_keys = <<>>
    /\ found = NotRun
    /\ task_pc = <<>>
    /\ task_client = <<>>
    /\ clients = <<>>
    /\ client_ref = 0
    /\ sessions = 0
    /\ hashes = {}
    /\ hash_file = <<>>
    /\ add_log = <<>>
    /\ pending = <<>>
    /\ reopened = NotOpened
    /\ clock = 0
    /\ request = NoRequest
    /\ sent_log = <<>>
    /\ owns_jsrpc = TRUE
    /\ caller_pc = <<>>
    /\ caller_instance = <<>>
    /\ instances_made = 0
    /\ instance = 0
    /\ instance_lock = 0
    /\ request_lock = 0
    /\ loop_ready = <<>>
    /\ coroutines = <<>>
    /\ startup_lock = 0
    /\ client_started = FALSE

\* login(): the answer is decoded and classified
AnalyzeLoginResponse ==
    /\ pc = "classify_idle"
    /\ payload' = decode_response_body(response)
    /\ analysis' = analyze_login_response(response, payload')
    /\ pc' = "classified"
    /\ UNCHANGED <<singleton_state, life_state, wire_state, dedup_state, conc_state, engine_log, form_state, form_track, candidate_keys, found, ar_response,
                   hashRev, retry_policy, started, http_client, jsrpc_started, calls, args,
                   req_attempt, last_error, response, challenge, cap_attempt, solver_raw,
                   result, stats, events>>

ClassifyNext == AnalyzeLoginResponse

ClassifySpec == ClassifyInit /\ [][ClassifyNext]_vars

\* ------------------------------------------- the requests on the wire
\* _build_common_headers(): fixed when the handler is constructed
common_headers ==
    [User_Agent |-> "user-agent", Referer |-> "referer",
     Accept |-> "application/json, text/plain, */*"]

\* the arguments _fetch_antireplay_token gives to _request_with_retry; now is
\* what _now_ms() returns when the call is made
antireplay_request(params, now) ==
    [method |-> "GET", url |-> "BAIDU_ANTI_REPLAY_ENDPOINT",
     params |-> [baiduId |-> PyStr(PyOr(params.baidu_id, StrV(""))),
                 tpl |-> IF HasKey(params.extras, "tpl")
                         THEN PyStr(MapGet(params.extras, "tpl")) ELSE "wise",
                 tt |-> ToString(now)],
     data |-> Null,
     headers |-> common_headers]

\* the arguments _send_login_request gives to _request_with_retry
login_request(form) ==
    [method |-> "POST", url |-> "BAIDU_LOGIN_ENDPOINT",
     params |-> Null,
     data |-> form,
     headers |-> [User_Agent |-> common_headers.User_Agent,
                  Referer |-> common_headers.Referer,
                  Accept |-> common_headers.Accept,
                  Content_Type |-> "application/x-www-form-urlencoded; charset=UTF-8",
                  Origin |-> "https://wappass.baidu.com",
                  X_Requested_With |-> "XMLHttpRequest"]]

\* mutant of attempt_request: each attempt of the anti-replay request is stamped anew
attempt_request_restamped(req, now) ==
    IF req.method = "GET" THEN [req EXCEPT !.params.tt = ToString(now)] ELSE req

\* what an attempt made at time now gives to self._http_client.request: the
\* arguments of _request_with_retry as they are
attempt_request(req, now) == req

WireInit ==
    /\ hashRev = FALSE
    /\ retry_policy \in [max_attempts : 1..MaxEngineAttempts,
                         backoff_seconds : {1}, max_backoff_seconds : {4}]
    /\ http_client = "open"
    /\ started = TRUE
    /\ jsrpc_started = TRUE
    /\ calls = 0
    /\ pc = "idle"
    /\ args = NoArgs
    /\ req_attempt = 0
    /\ last_error = Null
    /\ response = NoResponse
    /\ payload = Null
    /\ challenge = NoChallenge
    /\ cap_attempt = 0
    /\ solver_raw = NoRaw
    /\ result = NoResult
    /\ stats = ZeroStats
    /\ events = <<>>
    /\ \E i \in 1..Len(CredentialBundles) : encrypted_params = CredentialBundles[i]
    /\ ar_response = NoResponse
    /\ anti_replay = NoToken
    /\ form_data = NoForm
    /\ sent_form = NoForm
    /\ attempt_log = <<>>
    /\ sleeps = <<>>
    /\ first_form = NoForm
    /\ form_ids = NoIds
    /\ prev_sent = NoForm
    /\ analysis = NoAnalysis
    /\ candidate_keys = <<>>
    /\ found = NotRun
    /\ task_pc = <<>>
    /\ task_client = <<>>
    /\ clients = <<>>
    /\ client_ref = 0
    /\ sessions = 0
    /\ hashes = {}
    /\ hash_file = <<>>
    /\ add_log = <<>>
    /\ pending = <<>>
    /\ reopened = NotOpened
    /\ clock = 0
    /\ request = NoRequest
    /\ sent_log = <<>>
    /\ owns_jsrpc = TRUE
    /\ caller_pc = <<>>
    /\ caller_instance = <<>>
    /\ instances_made = 0
    /\ instance = 0
    /\ instance_lock = 0
    /\ request_lock = 0
    /\ loop_ready = <<>>
    /\ coroutines = <<>>
    /\ startup_lock = 0
    /\ client_started = FALSE

\* _request_with_retry is entered with the arguments req and sends attempt 1
SendFirstAttempt(req) ==
    /\ request' = req
    /\ req_attempt' = 1
    /\ last_error' = Null
    /\ sent_log' = <<attempt_request(req, clock)>>
    /\ pc' = "wire_sending"

\* login() calls _fetch_antireplay_token
FetchAntireplayToken ==
    /\ pc = "idle"
    /\ SendFirstAttempt(antireplay_request(encrypted_params, clock))
    /\ UNCHANGED <<singleton_state, life_state, dedup_state, conc_state, pure_state, form_track, engine_log, form_state,
                   ar_response, hashRev, retry_policy, started, http_client, jsrpc_started,
                   calls, args, response, payload, challenge, cap_attempt, solver_raw,
                   result, stats, events, clock>>

\* the anti-replay request returned the answer AntiReplayResponses[i]: login()
\* builds the form and calls _send_login_request
SendLoginRequest(i) ==
    /\ pc = "wire_returned"
    /\ request.method = "GET"
    /\ AntiReplayResponses[i].status < 400
    /\ antireplay_error(AntiReplayResponses[i]) = ""
    /\ anti_replay' = antireplay_token(AntiReplayResponses[i])
    /\ form_data' = build_login_form_data(encrypted_params, anti_replay', Null)
    /\ sent_form' = form_data'
    /\ SendFirstAttempt(login_request(form_data'))
    /\ UNCHANGED <<singleton_state, life_state, dedup_state, conc_state, pure_state, form_track, engine_log,
                   encrypted_params, ar_response, hashRev, retry_policy, started,
                   http_client, jsrpc_started, calls, args, response, payload, challenge,
                   cap_attempt, solver_raw, result, stats, events, clock>>

\* the running attempt ends as outcome, elapsed milliseconds after it was sent;
\* the loop sleeps and sends the next attempt, or the engine returns or raises
WireAttemptEnds(outcome, elapsed) ==
    /\ pc = "wire_sending"
    /\ clock' = clock + elapsed
    /\ last_error' = IF outcome.error THEN StrV("RequestError") ELSE last_error
    /\ LET d == retry_decision(req_attempt, retry_policy.max_attempts,
                               outcome.error, outcome.status)
       IN IF d = "retry"
          THEN /\ req_attempt' = req_attempt + 1
               /\ sent_log' = Append(sent_log, attempt_request(request, clock'))
               /\ UNCHANGED pc
          ELSE /\ pc' = IF d = "raise" THEN "wire_failed" ELSE "wire_returned"
               /\ UNCHANGED <<req_attempt, sent_log>>
    /\ UNCHANGED <<singleton_state, life_state, dedup_state, conc_state, pure_state, form_track, engine_log, form_state,
                   ar_response, hashRev, retry_policy, started, http_client, jsrpc_started,
                   calls, args, response, payload, challenge, cap_attempt, solver_raw,
                   result, stats, events, request>>

WireNext ==
    \/ FetchAntireplayToken
    \/ \E i \in 1..Len(AntiReplayResponses) : SendLoginRequest(i)
    \/ \E elapsed \in 1..2 :
          \/ WireAttemptEnds(TransportError, elapsed)
          \/ \E status \in Statuses : WireAttemptEnds(Answered(status), elapsed)

WireSpec == WireInit /\ [][WireNext]_vars

\* ------------------------------------------- the handler's lifecycle
\* a handler that made its encryptor client itself, or was given one that its
\* owner has started; one caller awaits start(), close() and login() in turn
LifeInit ==
    /\ hashRev = FALSE
    /\ retry_policy = [max_attempts |-> 1, backoff_seconds |-> 1, max_backoff_seconds |-> 4]
    /\ http_client = "none"
    /\ started = FALSE
    /\ jsrpc_started \in BOOLEAN
    /\ calls = 0
    /\ pc = "idle"
    /\ args = NoArgs
    /\ req_attempt = 0
    /\ last_error = Null
    /\ response = NoResponse
    /\ payload = Null
    /\ challenge = NoChallenge
    /\ cap_attempt = 0
    /\ solver_raw = NoRaw
    /\ result = NoResult
    /\ stats = ZeroStats
    /\ events = <<>>
    /\ encrypted_params = NoParams
    /\ ar_response = NoResponse
    /\ anti_replay = NoToken
    /\ form_data = NoForm
    /\ sent_form = NoForm
    /\ attempt_log = <<>>
    /\ sleeps = <<>>
    /\ first_form = NoForm
    /\ form_ids = NoIds
    /\ prev_sent = NoForm
    /\ analysis = NoAnalysis
    /\ candidate_keys = <<>>
    /\ found = NotRun
    /\ task_pc = <<>>
    /\ task_client = <<>>
    /\ clients = <<>>
    /\ client_ref = 0
    /\ sessions = 0
    /\ hashes = {}
    /\ hash_file = <<>>
    /\ add_log = <<>>
    /\ pending = <<>>
    /\ reopened = NotOpened
    /\ clock = 0
    /\ request = NoRequest
    /\ sent_log = <<>>
    /\ owns_jsrpc = ~jsrpc_started
    /\ caller_pc = <<>>
    /\ caller_instance = <<>>
    /\ instances_made = 0
    /\ instance = 0
    /\ instance_lock = 0
    /\ request_lock = 0
    /\ loop_ready = <<>>
    /\ coroutines = <<>>
    /\ startup_lock = 0
    /\ client_started = FALSE

\* login() got through all its requests
LoginCompleted == LoginResult("success", StrV(LoginOkMsg), TRUE, StrV("abc123"), Null, Null, NoChallenge)

\* start() is awaited, by the caller or (from_login) by login(): a started
\* handler returns at once, else the HTTP client is made and the encryptor's
\* start() is awaited
HandlerStart(from_login) ==
    /\ pc = "idle"
    /\ calls < MaxOps
    /\ calls' = calls + 1
    /\ result' = NoResult
    /\ events' = Append(events, IF from_login THEN "login" ELSE "start")
    /\ IF started
       THEN /\ pc' = IF from_login THEN "life_request" ELSE "idle"
            /\ UNCHANGED <<clients, client_ref, http_client>>
       ELSE /\ clients' = Append(clients, "open")
            /\ client_ref' = Len(clients) + 1
            /\ http_client' = "open"
            /\ pc' = IF from_login THEN "life_login_start" ELSE "life_start"
    /\ UNCHANGED <<started, jsrpc_started, sessions>>
    /\ UNCHANGED <<singleton_state, wire_state, dedup_state, pure_state, form_track, engine_log, form_state,
                   task_pc, task_client, ar_response, hashRev, retry_policy, args,
                   req_attempt, last_error, response, payload, challenge, cap_attempt,
                   solver_raw, stats, owns_jsrpc>>

\* the encryptor's start() returns (at once when it is started already):
\* start() sets _started
HandlerStartReturns ==
    /\ pc \in {"life_start", "life_login_start"}
    /\ sessions' = IF jsrpc_started THEN sessions ELSE sessions + 1
    /\ jsrpc_started' = TRUE
    /\ started' = TRUE
    /\ pc' = IF pc = "life_start" THEN "idle" ELSE "life_request"
    /\ UNCHANGED <<clients, client_ref, http_client, calls, result, events>>
    /\ UNCHANGED <<singleton_state, wire_state, dedup_state, pure_state, form_track, engine_log, form_state,
                   task_pc, task_client, ar_response, hashRev, retry_policy, args,
                   req_attempt, last_error, response, payload, challenge, cap_attempt,
                   solver_raw, stats, owns_jsrpc>>

\* the encryptor's start() raises: start() closes and clears the HTTP client
\* and re-raises
HandlerStartRaises ==
    /\ pc \in {"life_start", "life_login_start"}
    /\ ~jsrpc_started
    /\ clients' = [clients EXCEPT ![client_ref] = "closed"]
    /\ client_ref' = 0
    /\ http_client' = "none"
    /\ events' = Append(events, "start_raised")
    /\ pc' = "idle"
    /\ UNCHANGED <<started, jsrpc_started, sessions, calls, result>>
    /\ UNCHANGED <<singleton_state, wire_state, dedup_state, pure_state, form_track, engine_log, form_state,
                   task_pc, task_client, ar_response, hashRev, retry_policy, args,
                   req_attempt, last_error, response, payload, challenge, cap_attempt,
                   solver_raw, stats, owns_jsrpc>>

\* login() after start(): _request_with_retry reads self._http_client
HandlerLoginRequests ==
    /\ pc = "life_request"
    /\ result' = IF client_ref = 0
                 THEN ErrorResult("HTTP client not initialised", "handler_error")
                 ELSE LoginCompleted
    /\ pc' = "idle"
    /\ UNCHANGED <<started, jsrpc_started, sessions, clients, client_ref, http_client,
                   calls, events>>
    /\ UNCHANGED <<singleton_state, wire_state, dedup_state, pure_state, form_track, engine_log, form_state,
                   task_pc, task_client, ar_response, hashRev, retry_policy, args,
                   req_attempt, last_error, response, payload, challenge, cap_attempt,
                   solver_raw, stats, owns_jsrpc>>

\* close(): _safe_close_http_client clears the client whether aclose() returns
\* or raises; when it raises, close() ends there; else the encryptor is
\* closed if the handler owns it, and _started is reset
HandlerClose(aclose_raises) ==
    /\ pc = "idle"
    /\ calls < MaxOps
    /\ aclose_raises => client_ref # 0
    /\ calls' = calls + 1
    /\ result' = NoResult
    /\ clients' = IF client_ref = 0 THEN clients
                  ELSE [clients EXCEPT ![client_ref] =
                           IF aclose_raises THEN "close_failed" ELSE "closed"]
    /\ client_ref' = 0
    /\ http_client' = "none"
    /\ IF aclose_raises
       THEN /\ events' = Append(events, "close_raised")
            /\ UNCHANGED <<started, jsrpc_started>>
       ELSE /\ events' = Append(events, "close")
            /\ jsrpc_started' = (IF owns_jsrpc THEN FALSE ELSE jsrpc_started)
            /\ started' = FALSE
    /\ UNCHANGED <<sessions, pc>>
    /\ UNCHANGED <<singleton_state, wire_state, dedup_state, pure_state, form_track, engine_log, form_state,
                   task_pc, task_client, ar_response, hashRev, retry_policy, args,
                   req_attempt, last_error, response, payload, challenge, cap_attempt,
                   solver_raw, stats, owns_jsrpc>>

LifeNext ==
    \/ \E from_login \in BOOLEAN : HandlerStart(from_login)
    \/ HandlerStartReturns
    \/ HandlerStartRaises
    \/ HandlerLoginRequests
    \/ \E aclose_raises \in BOOLEAN : HandlerClose(aclose_raises)

LifeSpec == LifeInit /\ [][LifeNext]_vars

\* ------------------------------------------------------- JSRPCClientSingleton
\* Caller threads take the singleton with get_instance() and call
\* get_encrypted_params() or get_aes_key() on it.  Each such call makes sure the
\* client is started, takes the request lock and hands one coroutine to the event
\* loop of the background thread, where callbacks run one at a time in the order
\* they were queued.

Callers == 1..MaxCallers

BrowserMethods == {"get_encrypted_params", "get_aes_key"}

NoCoroutine == [method |-> "none", at |-> "none", answered |-> FALSE, must_cancel |-> FALSE]

\* asyncio.run_coroutine_threadsafe(coroutine, self._loop): the callback that makes
\* the task is queued on the loop
submit(ready, t) == Append(ready, [op |-> "create", of |-> t])

StepQueued(ready, t) == \E i \in 1..Len(ready) : ready[i] = [op |-> "step", of |-> t]

\* future.result(timeout) ran out and nothing is cancelled
on_timeout_abandons(ready, t) == ready

\* future.result(timeout) ran out: future.cancel() queues the task's cancel() on the loop
on_timeout(ready, t) == Append(ready, [op |-> "cancel", of |-> t])

SingletonInit ==
    /\ hashRev = FALSE
    /\ retry_policy = [max_attempts |-> 1, backoff_seconds |-> 1, max_backoff_seconds |-> 4]
    /\ http_client = "none"
    /\ started = FALSE
    /\ jsrpc_started = FALSE
    /\ calls = 0
    /\ pc = "idle"
    /\ args = NoArgs
    /\ req_attempt = 0
    /\ last_error = Null
    /\ response = NoResponse
    /\ payload = Null
    /\ challenge = NoChallenge
    /\ cap_attempt = 0
    /\ solver_raw = NoRaw
    /\ result = NoResult
    /\ stats = ZeroStats
    /\ events = <<>>
    /\ encrypted_params = NoParams
    /\ ar_response = NoResponse
    /\ anti_replay = NoToken
    /\ form_data = NoForm
    /\ sent_form = NoForm
    /\ attempt_log = <<>>
    /\ sleeps = <<>>
    /\ first_form = NoForm
    /\ form_ids = NoIds
    /\ prev_sent = NoForm
    /\ analysis = NoAnalysis
    /\ candidate_keys = <<>>
    /\ found = NotRun
    /\ task_pc = <<>>
    /\ task_client = <<>>
    /\ clients = <<>>
    /\ client_ref = 0
    /\ sessions = 0
    /\ hashes = {}
    /\ hash_file = <<>>
    /\ add_log = <<>>
    /\ pending = <<>>
    /\ reopened = NotOpened
    /\ clock = 0
    /\ request = NoRequest
    /\ sent_log = <<>>
    /\ owns_jsrpc = TRUE
    /\ caller_pc = [t \in Callers |-> "idle"]
    /\ caller_instance = [t \in Callers |-> 0]
    /\ instances_made = 0
    /\ instance = 0
    /\ instance_lock = 0
    /\ request_lock = 0
    /\ loop_ready = <<>>
    /\ coroutines = [t \in Callers |-> NoCoroutine]
    /\ startup_lock = 0
    /\ client_started = FALSE
\* get_instance(): the first, unlocked test of cls._instance
GetInstanceCheck(t) ==
    /\ caller_pc[t] = "idle"
    /\ IF instance # 0
       THEN /\ caller_instance' = [caller_instance EXCEPT ![t] = instance]
            /\ caller_pc' = [caller_pc EXCEPT ![t] = "have_instance"]
       ELSE /\ caller_pc' = [caller_pc EXCEPT ![t] = "want_instance_lock"]
            /\ UNCHANGED caller_instance
    /\ UNCHANGED <<instances_made, instance, instance_lock, request_lock, loop_ready,
                   coroutines, startup_lock, client_started>>
    /\ UNCHANGED <<life_state, wire_state, dedup_state, conc_state, pure_state, form_track,
                   engine_log, form_state, ar_response, hashRev, retry_policy, started,
                   http_client, jsrpc_started, calls, pc, args, req_attempt, last_error,
                   response, payload, challenge, cap_attempt, solver_raw, result, stats,
                   events>>

\* get_instance(): with cls._instance_lock
AcquireInstanceLock(t) ==
    /\ caller_pc[t] = "want_instance_lock"
    /\ instance_lock = 0
    /\ instance_lock' = t
    /\ caller_pc' = [caller_pc EXCEPT ![t] = "in_instance_lock"]
    /\ UNCHANGED <<caller_instance, instances_made, instance, request_lock, loop_ready,
                   coroutines, startup_lock, client_started>>
    /\ UNCHANGED <<life_state, wire_state, dedup_state, conc_state, pure_state, form_track,
                   engine_log, form_state, ar_response, hashRev, retry_policy, started,
                   http_client, jsrpc_started, calls, pc, args, req_attempt, last_error,
                   response, payload, challenge, cap_attempt, solver_raw, result, stats,
                   events>>

\* get_instance(): the second test under the lock, the construction when
\* cls._instance is still None, the release of the lock and the return
CreateInstance(t) ==
    /\ caller_pc[t] = "in_instance_lock"
    /\ instance_lock = t
    /\ IF instance = 0
       THEN /\ instances_made' = instances_made + 1
            /\ instance' = instances_made + 1
       ELSE UNCHANGED <<instances_made, instance>>
    /\ caller_instance' = [caller_instance EXCEPT ![t] = instance']
    /\ instance_lock' = 0
    /\ caller_pc' = [caller_pc EXCEPT ![t] = "have_instance"]
    /\ UNCHANGED <<request_lock, loop_ready, coroutines, startup_lock, client_started>>
    /\ UNCHANGED <<life_state, wire_state, dedup_state, conc_state, pure_state, form_track,
                   engine_log, form_state, ar_response, hashRev, retry_policy, started,
                   http_client, jsrpc_started, calls, pc, args, req_attempt, last_error,
                   response, payload, challenge, cap_attempt, solver_raw, result, stats,
                   events>>

\* _ensure_started(): the first, unlocked test of self._started
EnsureStartedCheck(t) ==
    /\ caller_pc[t] = "have_instance"
    /\ caller_pc' = [caller_pc EXCEPT ![t] =
                        IF client_started THEN "want_request_lock" ELSE "want_startup_lock"]
    /\ UNCHANGED <<caller_instance, instances_made, instance, instance_lock, request_lock,
                   loop_ready, coroutines, startup_lock, client_started>>
    /\ UNCHANGED <<life_state, wire_state, dedup_state, conc_state, pure_state, form_track,
                   engine_log, form_state, ar_response, hashRev, retry_policy, started,
                   http_client, jsrpc_started, calls, pc, args, req_attempt, last_error,
                   response, payload, challenge, cap_attempt, solver_raw, result, stats,
                   events>>

\* _ensure_started(): with self._startup_lock; a client that was started meanwhile
\* is left alone, else self._client.start() is handed to the loop
AcquireStartupLock(t) ==
    /\ caller_pc[t] = "want_startup_lock"
    /\ startup_lock = 0
    /\ IF client_started
       THEN /\ caller_pc' = [caller_pc EXCEPT ![t] = "want_request_lock"]
            /\ UNCHANGED <<startup_lock, loop_ready, coroutines>>
       ELSE /\ startup_lock' = t
            /\ loop_ready' = submit(loop_ready, t)
            /\ coroutines' = [coroutines EXCEPT ![t] =
                                 [NoCoroutine EXCEPT !.method = "start", !.at = "submitted"]]
            /\ caller_pc' = [caller_pc EXCEPT ![t] = "starting"]
    /\ UNCHANGED <<caller_instance, instances_made, instance, instance_lock, request_lock,
                   client_started>>
    /\ UNCHANGED <<life_state, wire_state, dedup_state, conc_state, pure_state, form_track,
                   engine_log, form_state, ar_response, hashRev, retry_policy, started,
                   http_client, jsrpc_started, calls, pc, args, req_attempt, last_error,
                   response, payload, challenge, cap_attempt, solver_raw, result, stats,
                   events>>

\* _ensure_started(): start() returned within its 60 seconds
StartReturns(t) ==
    /\ caller_pc[t] = "starting"
    /\ coroutines[t].at = "finished"
    /\ client_started' = TRUE
    /\ startup_lock' = 0
    /\ caller_pc' = [caller_pc EXCEPT ![t] = "want_request_lock"]
    /\ UNCHANGED <<caller_instance, instances_made, instance, instance_lock, request_lock,
                   loop_ready, coroutines>>
    /\ UNCHANGED <<life_state, wire_state, dedup_state, conc_state, pure_state, form_track,
                   engine_log, form_state, ar_response, hashRev, retry_policy, started,
                   http_client, jsrpc_started, calls, pc, args, req_attempt, last_error,
                   response, payload, challenge, cap_attempt, solver_raw, result, stats,
                   events>>

\* _ensure_started(): start() did not return in time; _run_coroutine cancels the
\* future and raises, the lock is released and the caller's call ends
StartTimesOut(t) ==
    /\ caller_pc[t] = "starting"
    /\ coroutines[t].at # "finished"
    /\ loop_ready' = on_timeout(loop_ready, t)
    /\ startup_lock' = 0
    /\ caller_pc' = [caller_pc EXCEPT ![t] = "failed"]
    /\ UNCHANGED <<caller_instance, instances_made, instance, instance_lock, request_lock,
                   coroutines, client_started>>
    /\ UNCHANGED <<life_state, wire_state, dedup_state, conc_state, pure_state, form_track,
                   engine_log, form_state, ar_response, hashRev, retry_policy, started,
                   http_client, jsrpc_started, calls, pc, args, req_attempt, last_error,
                   response, payload, challenge, cap_attempt, solver_raw, result, stats,
                   events>>

\* get_encrypted_params() / get_aes_key(): with self._request_lock the client's
\* coroutine is handed to the loop
AcquireRequestLock(t, method) ==
    /\ caller_pc[t] = "want_request_lock"
    /\ request_lock = 0
    /\ request_lock' = t
    /\ loop_ready' = submit(loop_ready, t)
    /\ coroutines' = [coroutines EXCEPT ![t] =
                         [NoCoroutine EXCEPT !.method = method, !.at = "submitted"]]
    /\ caller_pc' = [caller_pc EXCEPT ![t] = "waiting"]
    /\ UNCHANGED <<caller_instance, instances_made, instance, instance_lock, startup_lock,
                   client_started>>
    /\ UNCHANGED <<life_state, wire_state, dedup_state, conc_state, pure_state, form_track,
                   engine_log, form_state, ar_response, hashRev, retry_policy, started,
                   http_client, jsrpc_started, calls, pc, args, req_attempt, last_error,
                   response, payload, challenge, cap_attempt, solver_raw, result, stats,
                   events>>

\* _run_coroutine(): future.result(timeout) has the coroutine's outcome; the
\* request lock is released on the way out
RequestReturns(t) ==
    /\ caller_pc[t] = "waiting"
    /\ coroutines[t].at = "finished"
    /\ request_lock' = 0
    /\ caller_pc' = [caller_pc EXCEPT ![t] = "returned"]
    /\ UNCHANGED <<caller_instance, instances_made, instance, instance_lock, loop_ready,
                   coroutines, startup_lock, client_started>>
    /\ UNCHANGED <<life_state, wire_state, dedup_state, conc_state, pure_state, form_track,
                   engine_log, form_state, ar_response, hashRev, retry_policy, started,
                   http_client, jsrpc_started, calls, pc, args, req_attempt, last_error,
                   response, payload, challenge, cap_attempt, solver_raw, result, stats,
                   events>>

\* _run_coroutine(): future.result(timeout) ran out; future.cancel(), then
\* BaiduLoginTimeoutError leaves the with block and the request lock is released
RequestTimesOut(t) ==
    /\ caller_pc[t] = "waiting"
    /\ coroutines[t].at # "finished"
    /\ loop_ready' = on_timeout(loop_ready, t)
    /\ request_lock' = 0
    /\ caller_pc' = [caller_pc EXCEPT ![t] = "timed_out"]
    /\ UNCHANGED <<caller_instance, instances_made, instance, instance_lock, coroutines,
                   startup_lock, client_started>>
    /\ UNCHANGED <<life_state, wire_state, dedup_state, conc_state, pure_state, form_track,
                   engine_log, form_state, ar_response, hashRev, retry_policy, started,
                   http_client, jsrpc_started, calls, pc, args, req_attempt, last_error,
                   response, payload, challenge, cap_attempt, solver_raw, result, stats,
                   events>>

\* the page (or the browser, for start()) answers what the coroutine awaits: the
\* coroutine's next step is queued on the loop
PageAnswers(t) ==
    /\ coroutines[t].at = "awaiting"
    /\ ~coroutines[t].answered
    /\ coroutines' = [coroutines EXCEPT ![t].answered = TRUE]
    /\ loop_ready' = IF StepQueued(loop_ready, t) THEN loop_ready
                     ELSE Append(loop_ready, [op |-> "step", of |-> t])
    /\ UNCHANGED <<caller_pc, caller_instance, instances_made, instance, instance_lock,
                   request_lock, startup_lock, client_started>>
    /\ UNCHANGED <<life_state, wire_state, dedup_state, conc_state, pure_state, form_track,
                   engine_log, form_state, ar_response, hashRev, retry_policy, started,
                   http_client, jsrpc_started, calls, pc, args, req_attempt, last_error,
                   response, payload, challenge, cap_attempt, solver_raw, result, stats,
                   events>>

\* the loop thread runs the callback at the head of its queue.  "create" makes the
\* task and queues its first step; "cancel" is the task's cancel(), which marks a
\* task that has not ended and queues the step that raises CancelledError in it;
\* "step" runs the coroutine up to its next await (more) or to its end: a marked
\* coroutine ends there, cancelled, because neither client coroutine catches
\* CancelledError
LoopRunsCallback(more) ==
    /\ loop_ready # <<>>
    /\ LET h == Head(loop_ready)
           t == h.of
           c == coroutines[t]
           rest == Tail(loop_ready)
       IN  CASE h.op = "create" ->
                  /\ coroutines' = [coroutines EXCEPT ![t].at = "created"]
                  /\ loop_ready' = Append(rest, [op |-> "step", of |-> t])
             [] h.op = "cancel" ->
                  IF c.at \in {"created", "awaiting"}
                  THEN /\ coroutines' = [coroutines EXCEPT ![t].must_cancel = TRUE]
                       /\ loop_ready' = IF StepQueued(rest, t) THEN rest
                                        ELSE Append(rest, [op |-> "step", of |-> t])
                  ELSE /\ loop_ready' = rest
                       /\ UNCHANGED coroutines
             [] h.op = "step" ->
                  /\ loop_ready' = rest
                  /\ coroutines' = [coroutines EXCEPT ![t] =
                        IF c.must_cancel THEN [c EXCEPT !.at = "cancelled"]
                        ELSE IF c.at = "created" THEN [c EXCEPT !.at = "awaiting"]
                        ELSE IF c.answered /\ more
                             THEN [c EXCEPT !.answered = FALSE]
                        ELSE IF c.answered THEN [c EXCEPT !.at = "finished"]
                        ELSE c]
    /\ UNCHANGED <<caller_pc, caller_instance, instances_made, instance, instance_lock,
                   request_lock, startup_lock, client_started>>
    /\ UNCHANGED <<life_state, wire_state, dedup_state, conc_state, pure_state, form_track,
                   engine_log, form_state, ar_response, hashRev, retry_policy, started,
                   http_client, jsrpc_started, calls, pc, args, req_attempt, last_error,
                   response, payload, challenge, cap_attempt, solver_raw, result, stats,
                   events>>

SingletonNext ==
    \/ \E t \in Callers : GetInstanceCheck(t)
    \/ \E t \in Callers : AcquireInstanceLock(t)
    \/ \E t \in Callers : CreateInstance(t)
    \/ \E t \in Callers : EnsureStartedCheck(t)
    \/ \E t \in Callers : AcquireStartupLock(t)
    \/ \E t \in Callers : StartReturns(t)
    \/ \E t \in Callers : StartTimesOut(t)
    \/ \E t \in Callers, method \in BrowserMethods : AcquireRequestLock(t, method)
    \/ \E t \in Callers : RequestReturns(t)
    \/ \E t \in Callers : RequestTimesOut(t)
    \/ \E t \in Callers : PageAnswers(t)
    \/ \E more \in BOOLEAN : LoopRunsCallback(more)

SingletonSpec == SingletonInit /\ [][SingletonNext]_vars

\* ================================================================== claims
IsBlank(x) == \A i \in 1..Len(x) : SubSeq(x, i, i) = " "

LastEvent == events[Len(events)]

Classifications ==
    SelectSeq(events, LAMBDA ev : ev \in {"success", "failed", "captcha_required"})

CountEvents(name) == Len(SelectSeq(events, LAMBDA ev : ev = name))

\* C1: whenever the login response just classified carries a success token
\* (cookie jar, Set-Cookie header or body), login() has returned status=success
\* with that token, whatever challenge signals the response also carries, and
\* the solver is not invoked for it.
C1_TokenAlwaysSuccess ==
    (response # NoResponse /\ Truthy(extract_bduss(response, payload)))
        => /\ pc = "done"
           /\ result.status = "success"
           /\ result.bduss = extract_bduss(response, payload)

\* C2: login() never raises to its caller, and once a collaborator or engine
\* step has failed the invocation ends with a LoginResult of status=error and
\* success=false.
C2_LoginNeverRaises ==
    /\ pc # "raised"
    /\ (pc = "done" /\ \E i \in 1..Len(events) :
            events[i] \in {"encrypt_error", "antireplay_error", "request_error",
                           "solution_raised"})
        => (result.status = "error" /\ ~result.success)

\* C3: with a blank username, an empty password or max_captcha_attempts <= 0,
\* login() has returned status=error and has done no work: start() was not
\* called (no HTTP client was created), the encryptor was not called, no
\* logical request was sent and the solver was not invoked.
C3_InvalidArgsDoNoWork ==
    (args # NoArgs /\ (\/ IsBlank(args.username)
                       \/ args.password = ""
                       \/ args.max_captcha_attempts <= 0))
        => /\ pc = "done"
           /\ result # NoResult
           /\ result.status = "error"
           /\ ~result.success
           /\ stats = ZeroStats
           /\ events = <<>>
           /\ (http_client = "open" => started)

C3_Witness ==
    /\ pc = "done"
    /\ ~started
    /\ ~IsBlank(args.username)
    /\ args.password # ""
    /\ args.max_captcha_attempts = 0
    /\ result.error_code = StrV("invalid_captcha_attempts")

\* C4: every LoginResult with status=captcha_required carries a non-null
\* captcha_challenge.
C4_CaptchaRequiredHasChallenge ==
    (pc = "done" /\ result.status = "captcha_required")
        => result.captcha_challenge # NoChallenge

\* the challenge came from a non-JSON text body: no descriptor field is set
C4_Witness ==
    /\ pc = "done"
    /\ result.status = "captcha_required"
    /\ IsStr(payload)
    /\ result.captcha_challenge # NoChallenge
    /\ result.captcha_challenge.vcodestr = Null
    /\ result.captcha_challenge.code_string = Null
    /\ result.captcha_challenge.captcha_url = Null
    /\ result.error_code = StrV("captcha_attempts_exhausted")

\* C5: when every submission was answered with a challenge and every solver
\* call gave a usable answer, login(max_captcha_attempts=N) ends after exactly
\* N solver invocations and N+1 login POST logical requests, with
\* captcha_required / captcha_attempts_exhausted and the descriptor of the last
\* response.
C5_AlwaysChallengedExhausts ==
    (/\ pc = "done"
     /\ args.has_callback
     /\ Len(events) > 0
     /\ LastEvent = "captcha_required"
     /\ \A i \in 1..Len(events) :
            events[i] \in {"encrypt", "antireplay", "login_post", "captcha_required",
                           "solver", "solution_ok"})
        => /\ stats.solver = args.max_captcha_attempts
           /\ stats.posts = args.max_captcha_attempts + 1
           /\ result.status = "captcha_required"
           /\ result.error_code = StrV("captcha_attempts_exhausted")
           /\ payload = decode_response_body(response)
           /\ result.response = payload
           /\ result.captcha_challenge = extract_captcha_challenge(payload)

C5_Witness ==
    /\ pc = "done"
    /\ args.has_callback
    /\ args.max_captcha_attempts = 2
    /\ stats.solver = 2
    /\ stats.posts = 3
    /\ result.error_code = StrV("captcha_attempts_exhausted")
    /\ result.captcha_challenge.code_string = StrV("cs2")

\* C6: when a submission is classified challenge_required and no solver was
\* supplied, login() has returned captcha_required with the descriptor
\* extracted from that response, after exactly one login POST logical request
\* and no solver invocation.
C6_NoSolverReturnsChallenge ==
    (args # NoArgs /\ ~args.has_callback /\ CountEvents("captcha_required") > 0)
        => /\ pc = "done"
           /\ result.status = "captcha_required"
           /\ result.response = payload
           /\ result.captcha_challenge = extract_captcha_challenge(payload)
           /\ (response = LoginResponses[2] =>
                  /\ result.captcha_challenge.vcodestr = StrV("xyz")
                  /\ result.captcha_challenge.captcha_url = StrV("/cgi/genimage?xyz")
                  /\ result.captcha_challenge.error_code = StrV("120021"))
           /\ stats.posts = 1
           /\ stats.solver = 0

C6_Witness ==
    /\ pc = "done"
    /\ ~args.has_callback
    /\ result.status = "captcha_required"
    /\ result.captcha_challenge.vcodestr = StrV("xyz")
    /\ stats.posts = 1

\* C7: the solver is invoked at most max_captcha_attempts times, once per
\* challenge attempt, every invocation directly follows a submission classified
\* challenge_required, and it is never invoked when the initial submission is
\* classified success or failed (or when no solver was supplied).
C7_SolverInvocations ==
    args # NoArgs
        => /\ stats.solver = cap_attempt
           /\ stats.solver = CountEvents("solver")
           /\ (stats.solver > 0 =>
                  args.has_callback /\ stats.solver <= args.max_captcha_attempts)
           /\ \A i \in 1..Len(events) :
                  events[i] = "solver" => (i > 1 /\ events[i - 1] = "captcha_required")
           /\ (Len(Classifications) > 0 /\ Classifications[1] \in {"success", "failed"}
                  => stats.solver = 0)

C7_Witness ==
    /\ pc = "done"
    /\ args.max_captcha_attempts = 2
    /\ stats.solver = 2
    /\ result.status = "failed"

\* C8: inside the challenge loop, once a resubmission is classified success or
\* failed, login() has returned that status with that response's token, or its
\* error code and message, and no further solver invocation or login POST was
\* made, even if challenge attempts remain.
C8_LoopStopsOnVerdict ==
    (cap_attempt >= 1 /\ Len(events) > 0 /\ LastEvent \in {"success", "failed"})
        => /\ pc = "done"
           /\ result.status = LastEvent
           /\ result.response = payload
           /\ stats.solver = cap_attempt
           /\ stats.posts = cap_attempt + 1
           /\ (LastEvent = "success" =>
                  /\ result.success
                  /\ result.bduss = (IF Truthy(extract_bduss(response, payload))
                                     THEN extract_bduss(response, payload) ELSE Null))
           /\ (LastEvent = "failed" =>
                  /\ ~result.success
                  /\ result.error_code = extract_error_code(payload)
                  /\ result.message =
                        PyOr(extract_message(payload),
                             StrV("login failed, HTTP " \o ToString(response.status))))

\* the verdict arrives on attempt 1 of 2
C8_Witness ==
    /\ pc = "done"
    /\ cap_attempt = 1
    /\ args.max_captcha_attempts = 2
    /\ result.status = "success"
    /\ result.bduss = StrV("abc123")

\* a callback return value that gives no answer
Unusable(raw) ==
    \/ raw.t = "null"
    \/ raw.t = "str" /\ IsBlank(raw.s)
    \/ raw.t = "solution" /\ raw.verifycode = ""
    \/ /\ raw.t = "map"
       /\ \A key \in {"verifycode", "code"} :
             ~HasKey(raw, key) \/ MapItem(raw, key) \in {Null, StrV("")}

\* C9: when the solver returns nothing usable, login() has returned
\* captcha_required / captcha_callback_empty with the descriptor the solver was
\* given, without a resubmission and without another solver invocation.
C9_UnusableAnswerEndsLoop ==
    (solver_raw # NoRaw /\ Unusable(solver_raw))
        => /\ pc = "done"
           /\ result.status = "captcha_required"
           /\ result.error_code = StrV("captcha_callback_empty")
           /\ result.captcha_challenge = challenge
           /\ LastEvent = "solution_none"
           /\ stats.posts = cap_attempt
           /\ stats.solver = cap_attempt

C9_Witness ==
    /\ pc = "done"
    /\ solver_raw = StrV("  ")
    /\ cap_attempt = 2
    /\ result.error_code = StrV("captcha_callback_empty")

\* C10: when the solver returns a value of an unsupported shape, login() has
\* returned status=error, without a further login POST and without another
\* solver invocation.
C10_UnsupportedShapeIsError ==
    (solver_raw # NoRaw /\ solver_raw.t \notin {"null", "str", "solution", "map"})
        => /\ pc = "done"
           /\ result.status = "error"
           /\ ~result.success
           /\ stats.posts = cap_attempt
           /\ stats.solver = cap_attempt

C10_Witness ==
    /\ pc = "done"
    /\ solver_raw = IntV("42")
    /\ result.status = "error"
    /\ result.error_code = StrV("handler_error")

\* ------------------------------------------------ Retry/Backoff Engine claims
\* the engine has sent at least one attempt of its logical request
EngineRan == pc \in {"rq_sending", "rq_returned", "rq_failed"}

EngineEnded == pc \in {"rq_returned", "rq_failed"}

\* C11: one logical request sends at least 1 and at most max_attempts HTTP
\* requests (req_attempt counts them), whatever the attempts end in; and an
\* attempt was followed by a further one only if it was numbered below
\* max_attempts and ended in a transport failure or a retryable status.
C11_AttemptsBounded ==
    EngineRan =>
        /\ 1 <= req_attempt
        /\ req_attempt <= retry_policy.max_attempts
        /\ Len(attempt_log) = (IF EngineEnded THEN req_attempt ELSE req_attempt - 1)
        /\ \A i \in 1..(req_attempt - 1) :
              /\ i < retry_policy.max_attempts
              /\ \/ attempt_log[i].error
                 \/ attempt_log[i].status \in {429, 500, 502, 503, 504}

\* a transport failure, then a retryable status, then a response that is returned
C11_Witness ==
    /\ pc = "rq_returned"
    /\ retry_policy.max_attempts = 3
    /\ attempt_log = <<TransportError, Answered(503), Answered(200)>>

\* C12: a response whose status is outside {429, 500, 502, 503, 504} is
\* returned on the attempt it arrives, with no further attempt; one whose status
\* is inside the set is retried while attempts remain, and is returned as a
\* normal response, not raised, when it arrives on attempt max_attempts.
C12_StatusDecidesReturn ==
    \A i \in 1..Len(attempt_log) :
        ~attempt_log[i].error =>
            IF attempt_log[i].status \notin {429, 500, 502, 503, 504}
               \/ i = retry_policy.max_attempts
            THEN pc = "rq_returned" /\ req_attempt = i /\ Len(attempt_log) = i
            ELSE req_attempt > i

\* a retryable status arrives on the final attempt and is returned
C12_Witness ==
    /\ pc = "rq_returned"
    /\ retry_policy.max_attempts = 2
    /\ attempt_log = <<Answered(503), Answered(503)>>

\* C13: the engine raises "request failed after retries" exactly when the
\* attempt numbered max_attempts ends in a transport failure; the error then
\* refers to the transport error of that final attempt, never to null; and it
\* is not raised when the final attempt produced a response.
C13_RaisesOnFinalTransportFailure ==
    LET m == retry_policy.max_attempts
    IN /\ (pc = "rq_failed") <=> (Len(attempt_log) = m /\ attempt_log[m].error)
       /\ pc = "rq_failed" =>
              /\ last_error # Null
              /\ last_error = StrV("RequestError of attempt " \o ToString(m))
       /\ (EngineEnded /\ ~attempt_log[Len(attempt_log)].error) => pc = "rq_returned"

\* the earlier attempts ended in retryable statuses, the final one in a failure
C13_Witness ==
    /\ pc = "rq_failed"
    /\ attempt_log = <<Answered(503), Answered(429), TransportError>>

\* C14: with integer backoff b and cap c, the sleep taken before attempt n
\* (2 <= n <= max_attempts) is min(b * 2^(n-2), c); the sleeps never decrease
\* and never exceed c; exactly one sleep precedes each attempt after the first,
\* so none follows the final attempt.
C14_BackoffDelays ==
    LET b == retry_policy.backoff_seconds
        c == retry_policy.max_backoff_seconds
    IN /\ EngineRan => Len(sleeps) = req_attempt - 1
       /\ Len(sleeps) <= retry_policy.max_attempts - 1
       /\ \A n \in 2..(Len(sleeps) + 1) :
              /\ sleeps[n - 1] = (IF b * 2^(n - 2) <= c THEN b * 2^(n - 2) ELSE c)
              /\ sleeps[n - 1] <= c
              /\ n > 2 => sleeps[n - 2] <= sleeps[n - 1]

\* the second sleep is cut by the cap, and the third attempt is the last
C14_Witness ==
    /\ EngineEnded
    /\ retry_policy.backoff_seconds = 2
    /\ retry_policy.max_backoff_seconds = 3
    /\ req_attempt = 3
    /\ sleeps = <<2, 3>>

\* --------------------------------------------- Anti-Replay Token Fetcher claims
\* the handler resumes with an anti-replay answer that ends the logical request
FetchEnds == pc = "antireplay" /\ ar_response # NoResponse /\ pc' # "antireplay"

Is2xx(status) == 200 <= status /\ status < 300

\* the values the keys `names` have at the top level of a JSON object
FieldValues(body, names) ==
    {PyStr(body.e[i].v) : i \in {j \in 1..Len(body.e) : body.e[j].k \in names /\ body.e[j].v.t # "null"}}

RECURSIVE Mentions(_, _)
\* some key of `names` has a value other than null and "" somewhere in node
Mentions(node, names) ==
    \/ /\ node.t = "map"
       /\ \E i \in 1..Len(node.e) :
             \/ node.e[i].k \in names /\ NonEmpty(node.e[i].v)
             \/ Mentions(node.e[i].v, names)
    \/ /\ node.t = "list"
       /\ \E i \in 1..Len(node.e) : Mentions(node.e[i], names)

\* the answer is a JSON object whose error code is absent, "", "0" or "success"
AcceptableBody(r) ==
    /\ IsDict(r.json)
    /\ FieldValues(r.json, {"errno", "errNo", "err_no", "code"}) \subseteq {"", "0", "success"}

\* login() has gone on to the login POST, and nothing of the anti-replay
\* attempts is left in its state
PostBegins ==
    /\ pc' = "login_post"
    /\ result' = NoResult
    /\ events' = Append(events, "login_post")
    /\ stats' = [stats EXCEPT !.posts = 1]
    /\ req_attempt' = 1
    /\ last_error' = Null
    /\ ar_response' = NoResponse
    /\ sent_form' = form_data'

\* login() has returned status=error and no login POST was sent
FatalNoPost ==
    /\ pc' = "done"
    /\ result'.status = "error"
    /\ ~result'.success
    /\ stats'.posts = 0
    /\ \A i \in 1..Len(events') : events'[i] # "login_post"
    /\ sent_form' = NoForm

\* C15: when the anti-replay endpoint answered attempts 1..k-1 with a
\* retryable status (no attempt failed in transport: last_error is still null)
\* and answers attempt k <= max_attempts with HTTP 200 and a valid body, the
\* fetch succeeds and login() submits the login form; the state the login POST
\* starts from (attempt 1, no last error) keeps nothing of the earlier answers,
\* so the result depends on the login responses alone.
C15_RetriedFetchProceeds ==
    [][(/\ FetchEnds
        /\ last_error = Null
        /\ req_attempt <= retry_policy.max_attempts
        /\ ar_response.status = 200
        /\ AcceptableBody(ar_response))
       => /\ PostBegins
          /\ anti_replay'.raw = ar_response.json
          /\ UNCHANGED <<response, payload, challenge, cap_attempt, solver_raw>>]_vars

\* attempt 1 was answered with a retryable status; attempt 2 is answered 200
C15_Witness ==
    /\ pc = "antireplay"
    /\ req_attempt = 2
    /\ last_error = Null
    /\ ar_response = AntiReplayResponses[1]

\* C16: when the anti-replay logical request ends with a status that is not
\* 2xx (a returned 3xx, a 4xx, a retryable 5xx on the final attempt), login()
\* returns status=error and no login POST is sent.
C16_NonSuccessStatusIsFatal ==
    [][(FetchEnds /\ ~Is2xx(ar_response.status)) => FatalNoPost]_vars

\* C17: a 2xx anti-replay answer is fatal (status=error, no login POST) when
\* its body is not a JSON object or holds an error code other than "", "0" and
\* "success"; otherwise the flow proceeds to the login POST.
C17_AntiReplayBodyChecked ==
    [][(FetchEnds /\ Is2xx(ar_response.status))
       => IF AcceptableBody(ar_response) THEN PostBegins ELSE FatalNoPost]_vars

\* the form key of a named bundle field, and the field's value
BundleValue(params, key) ==
    CASE key = "password" -> params.password
      [] key = "username" -> params.username
      [] key = "k" -> params.k
      [] key = "s" -> params.s
      [] key = "ds" -> params.ds
      [] key = "tk" -> params.tk
      [] key = "sig" -> params.sig
      [] key = "shaOne" -> params.sha_one
      [] key = "servertime" -> params.servertime
      [] key = "fuid" -> params.fuid
      [] key = "gid" -> params.gid
      [] key = "session_id" -> params.session_id
      [] key = "baiduId" -> params.baidu_id

\* C18: a 2xx JSON object with no error code and no token or server time gives
\* an AntiReplayToken with null token and servertime, no error, and login()
\* builds the form from the credential bundle alone and submits the login POST.
C18_NoTokenStillSubmits ==
    [][(/\ FetchEnds
        /\ Is2xx(ar_response.status)
        /\ AcceptableBody(ar_response)
        /\ FieldValues(ar_response.json, {"errno", "errNo", "err_no", "code"}) = {}
        /\ ~Mentions(ar_response.json,
                     {"antireplaytoken", "token", "tk",
                      "servertime", "serverTime", "server_time"}))
       => /\ PostBegins
          /\ anti_replay' = AntiReplayToken(Null, Null, ar_response.json)
          /\ Keys(form_data') = BundleKeys \cup Keys(encrypted_params.extras)
          /\ \A key \in BundleKeys :
                 MapItem(form_data', key) = BundleValue(encrypted_params, key)]_vars

\* the login POST is in flight with the form of the bundle alone
C18_Witness ==
    /\ pc = "login_post"
    /\ anti_replay = AntiReplayToken(Null, Null, Map(<<>>))
    /\ sent_form = form_data
    /\ MapItem(sent_form, "servertime") = StrV("1600")
    /\ ~HasKey(sent_form, "token")

\* ------------------------------------------------- Login Form Builder claims
\* every value of the form is a non-empty string
StringValued(form) ==
    \A i \in 1..Len(form.e) : form.e[i].v.t = "str" /\ form.e[i].v.s # ""

\* C19: every form handed to the login endpoint, the initial form and every
\* form a challenge merge produces, holds only non-null, non-empty string
\* values, whatever the credential bundle, anti-replay token, caller extras and
\* normalised solution are.
C19_SubmittedFormsAreStrings ==
    /\ form_data # NoForm => StringValued(form_data)
    /\ sent_form # NoForm => StringValued(sent_form)

\* a merged form of the sparse bundle: null and empty fields were dropped
C19_Witness ==
    /\ pc = "form_merged"
    /\ encrypted_params = CredentialBundles[2]
    /\ args.extra_form_data = ExtraFormData[3]
    /\ solver_raw = FormCallbackValues[3]
    /\ ~HasKey(sent_form, "k")
    /\ ~HasKey(sent_form, "s")
    /\ MapItem(sent_form, "countrycode") = StrV("86")
    /\ MapItem(sent_form, "verifycode") = StrV("9")

\* the keys the solution of the last merge supplies
SuppliedKeys ==
    LET solution == normalise_callback_result(solver_raw, challenge).sol
    IN {solution.extras[i].k : i \in 1..Len(solution.extras)}

\* C20: a challenge merge removes no key of the base form, and a field of the
\* credential bundle keeps the value it has in the base form unless the
\* solution supplies that key itself.
C20_MergeKeepsSignedFields ==
    pc = "form_merged" =>
        /\ Keys(form_data) \subseteq Keys(sent_form)
        /\ \A key \in BundleKeys \cap Keys(form_data) :
              \/ MapItem(sent_form, key) = MapItem(form_data, key)
              \/ key \in SuppliedKeys

\* the solution overrides gid, and every other signed field is kept
C20_Witness ==
    /\ pc = "form_merged"
    /\ encrypted_params = CredentialBundles[1]
    /\ solver_raw = FormCallbackValues[1]
    /\ MapItem(form_data, "gid") = StrV("gid1")
    /\ MapItem(sent_form, "gid") = StrV("own-gid")
    /\ MapItem(sent_form, "password") = StrV("ENCpw")
    /\ MapItem(sent_form, "verifycode") = StrV("9")

\* the value the credential bundle gives a form key: its extras map is applied
\* over its named fields
BundleSupplies(params, key) ==
    IF HasKey(params.extras, key) THEN MapItem(params.extras, key)
    ELSE IF key \in BundleKeys THEN BundleValue(params, key)
    ELSE Null

\* the keys the caller's extra_form_data names
CallerKeys == IF Truthy(args.extra_form_data) THEN Keys(args.extra_form_data) ELSE {}

\* C21: in the initial form a key for which the credential bundle supplies a
\* non-empty value keeps that value unless the caller's extra fields name the
\* key; the anti-replay token and servertime appear only under keys the bundle
\* does not supply.
C21_SignedFieldsNotOverwritten ==
    form_data # NoForm =>
        /\ \A key \in BundleKeys \cup Keys(encrypted_params.extras) :
              (/\ BundleSupplies(encrypted_params, key).t # "null"
               /\ PyStr(BundleSupplies(encrypted_params, key)) # ""
               /\ key \notin CallerKeys)
              => /\ HasKey(form_data, key)
                 /\ MapItem(form_data, key) = StrV(PyStr(BundleSupplies(encrypted_params, key)))
        /\ \A key \in {"token", "antireplaytoken", "servertime"} \ CallerKeys :
              (/\ HasKey(form_data, key)
               /\ StrV(PyStr(BundleSupplies(encrypted_params, key))) # MapItem(form_data, key))
              => /\ key \notin BundleKeys \cup Keys(encrypted_params.extras)
                 /\ MapItem(form_data, key) =
                       (IF key = "servertime" THEN anti_replay.servertime ELSE anti_replay.token)

\* the bundle signs its own token: the fetched token fills antireplaytoken only
C21_Witness ==
    /\ pc = "form_built"
    /\ encrypted_params = CredentialBundles[2]
    /\ anti_replay.token = StrV("tok1")
    /\ anti_replay.servertime = StrV("1700")
    /\ args.extra_form_data = Null
    /\ MapItem(form_data, "token") = StrV("signedtok")
    /\ MapItem(form_data, "antireplaytoken") = StrV("tok1")

NoSuccessToken ==
    /\ ~Truthy(response.cookie)
    /\ \A i \in 1..Len(response.set_cookie) : response.set_cookie[i].t = "null"
    /\ ~Mentions(payload, {"BDUSS", "bduss", "bdus"})

\* the error codes and the messages of the body, read at its top level and in
\* its errInfo object
BodyCodes ==
    IF ~IsDict(payload) THEN {}
    ELSE LET top == FieldValues(payload, {"errno", "errNo", "err_no", "code"})
         IN IF top # {} THEN top
            ELSE IF IsDict(MapGet(payload, "errInfo"))
                 THEN FieldValues(MapGet(payload, "errInfo"), {"no"})
                 ELSE {}

BodyMessages ==
    IF IsStr(payload) THEN {payload.s} \ {""}
    ELSE IF ~IsDict(payload) THEN {}
    ELSE LET top == FieldValues(payload, {"msg", "errmsg", "errMsg", "message", "tips",
                                          "error_msg", "errorMsg"})
         IN IF top # {} THEN top
            ELSE IF IsDict(MapGet(payload, "errInfo"))
                 THEN FieldValues(MapGet(payload, "errInfo"), {"msg", "message"})
                 ELSE {}

\* the three challenge signals of the decision list
ChallengeSignal ==
    \/ /\ IsDict(payload)
       /\ Mentions(payload, {"vcodestr", "verifycode", "codeString", "codestring",
                             "captcha", "captchaUrl"})
    \/ BodyCodes \cap CAPTCHA_HINT_CODES # {}
    \/ \E m \in BodyMessages : Contains(Lower(m), "captcha") \/ Contains(m, ZhCaptcha)

\* the success marker of the decision list
SuccessMarker ==
    \/ BodyCodes \cap {"0", "success", "ok"} # {}
    \/ /\ IsDict(payload)
       /\ IsDict(MapGet(payload, "errInfo"))
       /\ FieldValues(MapGet(payload, "errInfo"), {"no"}) \cap {"0", "success", "ok"} # {}

\* C23: an answer without success token is classified by the ordered list:
\* challenge_required on a non-empty verification field, a challenge-hint error
\* code or a captcha keyword in the message (in any letter case); otherwise
\* success on an error code (or errInfo.no) "0", "success" or "ok"; otherwise
\* failed, with the body's message and error code. An answer with error code
\* "0" and a verification field is challenge_required.
C23_DecisionList ==
    (pc = "classified" /\ NoSuccessToken) =>
        /\ analysis.status = (IF ChallengeSignal THEN "captcha_required"
                              ELSE IF SuccessMarker THEN "success"
                              ELSE "failed")
        /\ analysis.status = "failed" =>
              /\ BodyMessages # {} => analysis.message.s \in BodyMessages
              /\ BodyCodes # {} => analysis.error_code.s \in BodyCodes
              /\ BodyCodes = {} => analysis.error_code = Null

\* error code 0 with a verification field, and no token: challenge_required
C23_Witness ==
    /\ pc = "classified"
    /\ NoSuccessToken
    /\ IsDict(payload)
    /\ MapGet(payload, "errno") = IntV("0")
    /\ MapGet(payload, "vcodestr") = StrV("xyz")
    /\ analysis.status = "captcha_required"

\* C24: a LoginResult with status=success carries a non-empty success token
\* or, when no token was found, a non-empty message; never neither.
C24_SuccessCarriesTokenOrMessage ==
    (result # NoResult /\ result.status = "success") =>
        /\ result.success
        /\ \/ result.bduss.t = "str" /\ result.bduss.s # ""
           \/ /\ result.bduss = Null
              /\ result.message.t = "str"
              /\ result.message.s # ""

\* a success without token: the body has errInfo.no "0" and no message
C24_Witness ==
    /\ pc = "done"
    /\ result.status = "success"
    /\ result.bduss = Null
    /\ result.message = StrV(LoginOkMsg)
    /\ extract_message(payload) = Null

\* ------------------------------------------------------- concurrency claims
\* C25: concurrent login() calls on one handler, started or not, share nothing
\* but one HTTP client: at most one client and one encryptor session are made,
\* no client that was made is left open without self._http_client referring
\* to it, and no call ends in an error another call caused (every answer in
\* this specification is good).
C25_CallsShareOneClient ==
    /\ Len(clients) <= 1
    /\ sessions <= 1
    /\ \A i \in 1..Len(clients) : clients[i] = "open" => client_ref = i
    /\ \A t \in Tasks : task_pc[t] # "done_error"

RECURSIVE MatchedValues(_, _)
\* the values that candidate keys have, anywhere in the tree, other than null
\* and the empty string
MatchedValues(node, names) ==
    IF node.t = "map"
    THEN UNION {(IF node.e[i].k \in names /\ NonEmpty(node.e[i].v)
                 THEN {node.e[i].v} ELSE {})
                \cup MatchedValues(node.e[i].v, names) : i \in 1..Len(node.e)}
    ELSE IF node.t = "list"
    THEN UNION {MatchedValues(node.e[i], names) : i \in 1..Len(node.e)}
    ELSE {}

\* the depth at which the returned value sits under a candidate key
RECURSIVE MatchDepth(_, _, _)
MatchDepth(node, names, value) ==
    IF node.t = "map"
    THEN IF \E i \in 1..Len(node.e) : node.e[i].k \in names /\ node.e[i].v = value
         THEN 1
         ELSE IF \E i \in 1..Len(node.e) : value \in MatchedValues(node.e[i].v, names)
         THEN 1 + MatchDepth(
                    node.e[CHOOSE i \in 1..Len(node.e) :
                               value \in MatchedValues(node.e[i].v, names)].v, names, value)
         ELSE 0
    ELSE IF node.t = "list" /\ \E i \in 1..Len(node.e) : value \in MatchedValues(node.e[i], names)
    THEN 1 + MatchDepth(
               node.e[CHOOSE i \in 1..Len(node.e) : value \in MatchedValues(node.e[i], names)],
               names, value)
    ELSE 0

\* C27: for a finite tree of maps, sequences and scalars and a candidate key
\* set, the extractor returns nothing when no map at any depth has a candidate
\* key with a value other than null and "", and otherwise the value of some such
\* key; it never returns null or "" for a matched key and it always returns.
C27_ExtractorFindsNestedValue ==
    pc = "extracted" =>
        LET names == {candidate_keys[i] : i \in 1..Len(candidate_keys)}
            matched == MatchedValues(payload, names)
        IN /\ found # NotRun
           /\ matched = {} => found = Null
           /\ matched # {} => found \in matched /\ found # Null /\ found # StrV("")

\* the value was found three levels down, under a map in a sequence in a map
C27_Witness ==
    /\ pc = "extracted"
    /\ candidate_keys = <<"a">>
    /\ found = StrV("v1")
    /\ payload.t = "map"
    /\ MatchDepth(payload, {"a"}, found) >= 4

\* ------------------------------------------------------- termination claims
\* C28: a login() invocation ends by returning exactly one LoginResult whose
\* status is success, failed, captcha_required or error, never otherwise; it
\* opens at most 2 + max_captcha_attempts logical requests of at most
\* max_attempts attempts each, so at most max_attempts x (2 +
\* max_captcha_attempts) HTTP requests, and invokes the solver at most
\* max_captcha_attempts times.
C28_OneResultWithinBudget ==
    /\ pc # "raised"
    /\ pc = "done" =>
          /\ result # NoResult
          /\ result.status \in {"success", "failed", "captcha_required", "error"}
    /\ pc # "done" => result = NoResult
    /\ (args # NoArgs /\ stats.ar + stats.posts > 0) =>
          /\ req_attempt <= retry_policy.max_attempts
          /\ (stats.ar + stats.posts - 1) * retry_policy.max_attempts + req_attempt
                <= retry_policy.max_attempts * (2 + args.max_captcha_attempts)
          /\ stats.solver <= args.max_captcha_attempts

\* ------------------------------------------------------- DedupManager claims
\* the payloads of the add() calls that have returned
Added == {add_log[i] : i \in 1..Len(add_log)}

\* the file holds every hash of the set on exactly one line and nothing else,
\* and a manager opened on it after the last add() has the same set and length
FileMatchesSet ==
    /\ Len(hash_file) = Cardinality(hashes)
    /\ {hash_file[i] : i \in 1..Len(hash_file)} = hashes
    /\ (reopened # NotOpened /\ reopened.adds = Len(add_log)) =>
          /\ reopened.hashes = hashes
          /\ Cardinality(reopened.hashes) = dedup_len

\* C29 as stated: after any add() calls, repeated ones and ones from several
\* threads included, exists(d) holds exactly for the payloads added, len() is
\* the number of distinct payloads added, the file holds each hash once and a
\* manager opened on the file reports the same set and length.
C29_DedupByPayload ==
    /\ \A d \in Payloads : dedup_exists(d) <=> d \in Added
    /\ dedup_len = Cardinality(Added)
    /\ FileMatchesSet

\* C29 amended: payloads are told apart by their MD5 digest. exists(d) holds
\* exactly for the payloads whose digest is that of an added payload, len() is
\* the number of distinct digests added, the file holds each hash once and a
\* manager opened on the file reports the same set and length.
C29_DedupByDigest ==
    /\ \A d \in Payloads : dedup_exists(d) <=> \E a \in Added : compute_hash(a) = compute_hash(d)
    /\ dedup_len = Cardinality({compute_hash(a) : a \in Added})
    /\ FileMatchesSet

\* three add() calls returned, one of them with data added before, and a
\* manager was opened on the file afterwards
C29_Witness ==
    /\ Len(add_log) = 3
    /\ Cardinality(Added) = 2
    /\ dedup_len = 2
    /\ Len(hash_file) = 2
    /\ reopened # NotOpened
    /\ reopened.adds = 3
    /\ reopened.hashes = hashes

\* ------------------------------------------------------------------ C30
\* the descriptor extracted from p names no challenge: neither a vcodestr nor
\* a code string nor a captcha URL
ExtractionYieldsNothing(p) ==
    LET e == extract_captcha_challenge(p)
    IN e.vcodestr = Null /\ e.code_string = Null /\ e.captcha_url = Null

\* the step classifies the answer to a resubmission as captcha_required
ResubmissionStillChallenged ==
    /\ pc = "login_post"
    /\ cap_attempt >= 1
    /\ Len(events') > Len(events)
    /\ events'[Len(events) + 1] = "captcha_required"

\* C30: after a resubmission that is still classified captcha_required and
\* whose response has no vcodestr, code string or captcha URL, the previous
\* descriptor is kept: the descriptor handed to the next solver invocation and
\* merge, and the one in the final captcha_required result, is the previous one
C30_PreviousDescriptorKept ==
    [][(ResubmissionStillChallenged /\ ExtractionYieldsNothing(payload'))
        => /\ challenge' = challenge
           /\ pc' = "done" => result'.captcha_challenge = challenge]_vars

\* ------------------------------------------------------------------ C31
\* the outbound events of the running login(), in the order they were made
Outbound ==
    SelectSeq(events, LAMBDA ev : ev \in {"encrypt", "antireplay", "login_post", "solver"})

\* C31: the outbound events of one login() are, in order, one encryptor call,
\* one anti-replay logical request, the first login POST, then (solver
\* invocation, login POST) pairs; the operation login() waits on is the last
\* of them, so that they run one at a time; and a login POST is begun only
\* once the anti-replay fetch has returned its token
C31_OutboundEventsOrdered ==
    LET o == Outbound
    IN /\ \A i \in 1..Len(o) :
             o[i] = CASE i = 1 -> "encrypt"
                      [] i = 2 -> "antireplay"
                      [] i = 3 -> "login_post"
                      [] OTHER -> IF i % 2 = 0 THEN "solver" ELSE "login_post"
       /\ pc \in {"encrypt", "antireplay", "login_post", "solver"}
             => Len(o) > 0 /\ o[Len(o)] = pc
       /\ ar_response # NoResponse => pc = "antireplay"
       /\ CountEvents("login_post") > 0 => anti_replay # NoToken /\ form_data # NoForm

\* a login() that resubmitted twice has returned
C31_Witness ==
    /\ pc = "done"
    /\ Outbound = <<"encrypt", "antireplay", "login_post", "solver", "login_post",
                    "solver", "login_post">>

\* ------------------------------------------------------------------ C32
\* C32: all attempts of one logical request give the HTTP client the same
\* method, URL, query parameters, headers and body, namely the arguments the
\* engine was called with; the tt of the anti-replay request is the time of
\* the call, whatever the time of the attempt
C32_AttemptsSendSameRequest ==
    pc \in {"wire_sending", "wire_returned", "wire_failed"}
        => /\ Len(sent_log) = req_attempt
           /\ \A i \in 1..Len(sent_log) : sent_log[i] = sent_log[1]
           /\ sent_log[1] = request
           /\ request.method = "POST" => request.data = form_data

\* an anti-replay request was sent a second time, later than it was stamped
C32_Witness ==
    /\ pc = "wire_sending"
    /\ request.method = "GET"
    /\ Len(sent_log) >= 2
    /\ request.params.tt # ToString(clock)

\* ------------------------------------------------------------------ C33
\* the first non-empty of the three values, or null
FirstNonEmpty(a, b, c) ==
    IF NonEmpty(a) THEN a ELSE IF NonEmpty(b) THEN b ELSE IF NonEmpty(c) THEN c ELSE Null

\* C33: in every merged form verifycode is the solution's code, and when a
\* code string is available (the first non-empty of solution.vcodestr,
\* challenge.vcodestr, challenge.code_string) vcodestr and codeString both
\* hold it, whatever shape the solver returned
C33_MergedFormCarriesSolution ==
    pc = "form_merged"
        => LET sol == normalise_callback_result(solver_raw, challenge).sol
               code_str == FirstNonEmpty(sol.vcodestr, challenge.vcodestr,
                                         challenge.code_string)
           IN /\ MapGet(sent_form, "verifycode") = StrV(sol.verifycode)
              /\ code_str # Null
                    => /\ MapGet(sent_form, "vcodestr") = code_str
                       /\ MapGet(sent_form, "codeString") = code_str

\* ------------------------------------------------------------------ C34
\* the BDUSS values of the Set-Cookie headers, in header order
HeaderTokens == SelectSeq(response.set_cookie, LAMBDA h : h.t # "null")

\* the non-empty values the body has under BDUSS, bduss or bdus at the least depth
BodyTokens ==
    IF ~IsDict(payload) THEN {}
    ELSE LET names == {"BDUSS", "bduss", "bdus"}
             all == MatchedValues(payload, names)
         IN {v \in all : \A w \in all :
                MatchDepth(payload, names, v) <= MatchDepth(payload, names, w)}

\* the tokens the source priority allows: the cookie of the jar if non-empty,
\* else the first BDUSS of the Set-Cookie headers, else a first body field
TokenChoice ==
    IF NonEmpty(response.cookie) THEN {response.cookie.s}
    ELSE IF Len(HeaderTokens) > 0 THEN {HeaderTokens[1].s}
    ELSE {Strip(PyStr(v)) : v \in BodyTokens}

\* C34: the token of a success classification is chosen by source priority:
\* the BDUSS cookie of the jar if non-empty, else the first BDUSS of the
\* Set-Cookie headers, else the first non-empty body field BDUSS/bduss/bdus
\* (trimmed); a source that gives only blanks gives no token; the body
\* {"errno": 0, "BDUSS": "abc123"} without cookies yields bduss "abc123"
C34_TokenBySourcePriority ==
    (pc = "classified" /\ analysis.status = "success")
        => /\ IF TokenChoice \subseteq {""}
              THEN analysis.bduss = Null
              ELSE analysis.bduss.t = "str" /\ analysis.bduss.s \in TokenChoice \ {""}
           /\ response = LoginResponses[1] => analysis.bduss = StrV("abc123")

\* an answer with a cookie token and another token in its body was classified
\* success with the cookie's token
C34_Witness ==
    /\ pc = "classified"
    /\ analysis.status = "success"
    /\ response.cookie = StrV("ck1")
    /\ IsDict(payload)
    /\ MapGet(payload, "BDUSS") = StrV("abc123")
    /\ analysis.bduss = StrV("ck1")

\* ------------------------------------------------------------------ C35
\* the number of levels of maps and sequences below node
RECURSIVE Height(_)
Height(node) ==
    IF node.t \in {"map", "list"} /\ Len(node.e) > 0
    THEN LET below == {Height(IF node.t = "map" THEN node.e[i].v ELSE node.e[i]) :
                          i \in 1..Len(node.e)}
         IN 1 + CHOOSE h \in below : \A g \in below : g <= h
    ELSE 0

\* the values, other than null and "", that candidate keys have in the map
\* nodes d levels below node
RECURSIVE MatchesAt(_, _, _)
MatchesAt(node, names, d) ==
    IF d = 0
    THEN IF node.t = "map"
         THEN {node.e[i].v : i \in {j \in 1..Len(node.e) :
                                       node.e[j].k \in names /\ NonEmpty(node.e[j].v)}}
         ELSE {}
    ELSE IF node.t = "map"
    THEN UNION {MatchesAt(node.e[i].v, names, d - 1) : i \in 1..Len(node.e)}
    ELSE IF node.t = "list"
    THEN UNION {MatchesAt(node.e[i], names, d - 1) : i \in 1..Len(node.e)}
    ELSE {}

\* a candidate key is present with a null or empty value d levels below node
RECURSIVE EmptyMatchAt(_, _, _)
EmptyMatchAt(node, names, d) ==
    IF d = 0
    THEN /\ node.t = "map"
         /\ \E i \in 1..Len(node.e) : node.e[i].k \in names /\ ~NonEmpty(node.e[i].v)
    ELSE IF node.t = "map"
    THEN \E i \in 1..Len(node.e) : EmptyMatchAt(node.e[i].v, names, d - 1)
    ELSE IF node.t = "list"
    THEN \E i \in 1..Len(node.e) : EmptyMatchAt(node.e[i], names, d - 1)
    ELSE FALSE

\* C35: the extractor is breadth-first: when candidate keys have non-empty
\* values at several depths, the value returned is one of those at the least
\* depth, and candidate keys with null or empty values at lesser depths do
\* not stop the search
C35_ExtractorIsBreadthFirst ==
    pc = "extracted" =>
        LET names == {candidate_keys[i] : i \in 1..Len(candidate_keys)}
        IN \A d \in 0..Height(payload) :
              (/\ MatchesAt(payload, names, d) # {}
               /\ \A e \in 0..(d - 1) : MatchesAt(payload, names, e) = {})
                  => found \in MatchesAt(payload, names, d)

\* a candidate key was empty one level down, another had a value one level
\* down in a later sibling, and a third match lay three levels down under the
\* first sibling: the value of the later sibling was returned
C35_Witness ==
    /\ pc = "extracted"
    /\ candidate_keys = <<"a", "b">>
    /\ payload.t = "list"
    /\ EmptyMatchAt(payload, {"a", "b"}, 1)
    /\ MatchesAt(payload, {"a", "b"}, 1) = {StrV("v3")}
    /\ MatchesAt(payload, {"a", "b"}, 3) = {StrV("v1")}
    /\ found = StrV("v3")

\* ------------------------------------------------------------------ C36
\* the solution or the descriptor of the merge just made supplies key with value
SuppliedNow(key, value, ch, sol) ==
    \/ key = "verifycode" /\ value = StrV(sol.verifycode)
    \/ /\ key \in {"vcodestr", "codeString"}
       /\ NonEmpty(value)
       /\ value \in {sol.vcodestr, ch.vcodestr, ch.code_string}
    \/ \E i \in 1..Len(sol.extras) :
          sol.extras[i].k = key /\ value = StrV(sol.extras[i].v)

\* C36: each resubmitted form is the initial form plus what the solution and
\* the descriptor of its own attempt supply: every field of the form of a
\* later attempt is a field of the initial form or is supplied by that
\* attempt, so nothing an earlier attempt contributed is carried over
C36_ResubmissionStartsFromInitialForm ==
    [][(pc = "form_merged" /\ pc' = "form_merged" /\ cap_attempt' = cap_attempt + 1)
        => LET sol == normalise_callback_result(solver_raw', challenge').sol
           IN /\ prev_sent' = sent_form
              /\ \A key \in {sent_form'.e[i].k : i \in 1..Len(sent_form'.e)} :
                    \/ /\ HasKey(first_form, key)
                       /\ MapGet(sent_form', key) = MapGet(first_form, key)
                    \/ SuppliedNow(key, MapGet(sent_form', key), challenge', sol)]_vars

\* the form of the first attempt had a code string and an extra of its
\* solution; the form of the second attempt has neither
C36_Witness ==
    /\ pc = "form_merged"
    /\ cap_attempt = 2
    /\ HasKey(prev_sent, "traceid") /\ ~HasKey(sent_form, "traceid")
    /\ HasKey(prev_sent, "vcodestr") /\ ~HasKey(sent_form, "vcodestr")
    /\ MapGet(prev_sent, "verifycode") # MapGet(sent_form, "verifycode")

\* ------------------------------------------------------------------ C37
\* C37: in every LoginResult login() returns, success is true exactly when
\* status is success; the bduss field is set only when status is success,
\* so the token of an answer classified captcha_required or failed is not
\* reported in it; and a success result has neither error_code nor
\* captcha_challenge
C37_ResultFieldsAgree ==
    result # NoResult
        => /\ result.success \in BOOLEAN
           /\ result.success <=> result.status = "success"
           /\ result.bduss # Null => result.status = "success"
           /\ result.status = "success"
                 => result.error_code = Null /\ result.captcha_challenge = NoChallenge

\* an answer with a token was classified captcha_required and the result
\* reports no token
C37_Witness ==
    /\ pc = "done"
    /\ result.status = "captcha_required"
    /\ ~result.success
    /\ Truthy(extract_bduss(response, payload))
    /\ result.bduss = Null

\* ------------------------------------------------------------------ C38
\* the step ends a call with this entry of the log
StepLogs(entry) == events' = Append(events, entry)

\* C38: when the encryptor's start() raises inside start(), the HTTP client
\* that start() made is closed and cleared and the handler stays not started;
\* after close() the handler holds no HTTP client and is not started, and the
\* encryptor is closed only if the handler made it; a login() after close()
\* starts the handler again and never fails with "HTTP client not initialised"
C38_LifecycleRestarts ==
    [][/\ StepLogs("start_raised")
          => /\ clients'[client_ref] = "closed"
             /\ client_ref' = 0
             /\ ~started'
       /\ (StepLogs("close") \/ StepLogs("close_raised"))
          => /\ client_ref' = 0
             /\ ~started'
             /\ jsrpc_started' = (IF owns_jsrpc THEN FALSE ELSE jsrpc_started)
       /\ pc' = "life_request" => started'
       /\ result' # ErrorResult("HTTP client not initialised", "handler_error")]_vars

\* ------------------------------------------------------------------ C39
\* the value the anti-replay answer gave for a form key
AntiReplayValue(key) == IF key = "servertime" THEN anti_replay.servertime ELSE anti_replay.token

\* the credential bundle has no usable value for the key: none, null or empty
NoUsableValue(params, key) ==
    \/ BundleSupplies(params, key).t = "null"
    \/ PyStr(BundleSupplies(params, key)) = ""

\* C39: when the credential bundle supplies no usable value for servertime,
\* token or antireplaytoken and the anti-replay answer supplied a non-empty
\* one, the initial form has the key with the anti-replay value (the caller's
\* extra fields aside); a bundle with servertime null and an anti-replay
\* servertime T gives a form with servertime T
C39_AntiReplayFillsMissing ==
    pc = "form_built"
        => \A key \in {"servertime", "token", "antireplaytoken"} \ CallerKeys :
              (NoUsableValue(encrypted_params, key) /\ NonEmpty(AntiReplayValue(key)))
                 => MapGet(form_data, key) = AntiReplayValue(key)

\* ----------------------------------------------- JSRPCClientSingleton claims

\* a browser coroutine of caller t has begun on the page and has not ended
ExecutingOnPage(t) ==
    /\ coroutines[t].method \in BrowserMethods
    /\ coroutines[t].at = "awaiting"

====
